---- MODULE Spec2Model ----
(***************************************************************************)
(* A model of the line profiler's enable guard, event router and wrapping  *)
(* dispatcher.  The enable guard (enable_by_count / disable_by_count) and  *)
(* the decorator entry point (__call__) are those of kernprof.py's         *)
(* ContextualProfile; the event router, the timing store and the wrapping  *)
(* dispatcher belong to the line_profiler package (LineProfiler,           *)
(* ByCountProfilerMixin) and follow the specification and the scenarios    *)
(* of tests/test_line_profiler.py.                                         *)
(***************************************************************************)
EXTENDS Integers, Sequences, FiniteSets, TLC

\* ------------------------------------------------------------------ bounds
\* Highest nesting: of acquires (the value the enable counter is driven to)
\* and of with-blocks and calls (the depth of the control stack).
MaxNest == 2
\* Number of trace events (call, line, return) a behaviour goes through.
MaxEvents == 5
\* Number of wrapper objects a behaviour creates.
MaxWrappers == 1
\* Highest n of the nested use: n acquires followed by n releases.
MaxAcquires == 6
\* Number of guard calls each thread makes.
MaxThreadCalls == 2
\* Deepest recursion: rec(n) is called with n up to this.
MaxDepth == 2
\* Number of top-level calls of the recursive function.
MaxInvokes == 2
\* Number of profile(...) decorations of bound methods, partials, properties.
MaxWraps == 2
\* Number of calls (and property reads and writes) made after decorating.
MaxCalls == 3
\* Ticks of the clock that pass in the caller while the generator is
\* suspended.
MaxTicks == 1
\* Half seconds of wall-clock time a run of kernprof's main goes through.
MaxClock == 4
\* Half seconds of wall-clock time a run goes through in which every timer
\* fires on time.
MaxHalves == 7
\* Number of Timer objects one RepeatedTimer creates.
MaxFire == 4
\* Number of calls of the profiled function the target script makes.
MaxRuns == 2
\* Largest absolute value of --output-interval (and of its default).
MaxOption == 2
\* Longest argument list given to pre_parse_single_arg_directive.
MaxArgs == 4

VARIABLES
    enable_count,   \* ContextualProfile.enable_count
    trace,          \* sys.gettrace(): "None", "H" (a user hook) or "profiler"
    prev_trace,     \* the hook the profiler saved when it was enabled
    tool,           \* the runtime's active profiling tool: a name or "None"
    wrap_trace,     \* LineProfiler(wrap_trace=...)
    usertrace,      \* the hook the program last installed with sys.settrace
    last_time,      \* live Call Frame Timers: set of [act, fn, line, t]
    timings,        \* code_map: code unit -> (line -> [hits, time])
    functions,      \* registered raw callables, in order of registration
    wrappers,       \* wrapper objects created so far: id -> [target]
    now,            \* the clock; one tick per trace event
    log,            \* the latest event reported and who handled it, in order
    stack,          \* control stack: with-blocks and function activations
    exc,            \* an exception is propagating
    ncalls,         \* calls made so far
    last,           \* the most recent operation and the state it started from
    drv,            \* the nested-use driver: n acquires, then n releases
    thr,            \* the threads that call the guard, bytecode by bytecode
    job,            \* the call in progress, step by step, and its open frames
    sh,             \* the decorated shapes, their object and their use so far
    kp,             \* kernprof's main, its periodic dumpers and their threads
    expected,       \* line executions of activations profiled start to end
    allclean        \* no activation was profiled only in part

\* The variables of the other specifications' drivers.
elsewhere == <<drv, thr, job, sh, kp>>

vars == <<enable_count, trace, prev_trace, tool, wrap_trace, usertrace, last_time,
          timings, functions, wrappers, now, log, stack, exc, ncalls, last,
          drv, thr, job, sh, kp, expected, allclean>>

\* ------------------------------------------------------- the profiler object
\* The state the profiler's methods read and write, as one record; `calls'
\* collects the underlying enable()/disable() calls one operation makes.
Self ==
    [enable_count |-> enable_count, trace |-> trace, prev_trace |-> prev_trace,
     last_time |-> last_time, timings |-> timings, functions |-> functions,
     wrappers |-> wrappers, log |-> log, tool |-> tool, calls |-> <<>>]

\* The underlying enable(): the Event Router saves the active hook, becomes
\* the active hook and registers itself as the runtime's profiling tool.
enable(p) ==
    [p EXCEPT !.prev_trace = p.trace, !.trace = "profiler",
              !.tool = "line_profiler", !.calls = Append(@, "enable")]

\* An underlying disable() that leaves the tool registered.
disable_registered(p) ==
    [p EXCEPT !.trace = p.prev_trace, !.last_time = {},
              !.calls = Append(@, "disable")]

\* The underlying disable(): the Event Router restores the hook it saved,
\* clears the live Call Frame Timers and deregisters the tool.
disable(p) ==
    [p EXCEPT !.trace = p.prev_trace, !.last_time = {}, !.tool = "None",
              !.calls = Append(@, "disable")]

\* enable_by_count with its test inverted.
enable_by_count_inverted(p) ==
    LET q == IF p.enable_count # 0 THEN enable(p) ELSE p
    IN  [q EXCEPT !.enable_count = @ + 1]

\* enable_by_count without its test: every acquire enables.
enable_by_count_always(p) ==
    [enable(p) EXCEPT !.enable_count = @ + 1]

\* kernprof.py:133-138
enable_by_count(p) ==
    LET q == IF p.enable_count = 0 THEN enable(p) ELSE p
    IN  [q EXCEPT !.enable_count = @ + 1]

\* disable_by_count with `> 1' for `> 0'.
disable_by_count_off_by_one(p) ==
    IF p.enable_count > 1
    THEN LET q == [p EXCEPT !.enable_count = @ - 1]
         IN  IF q.enable_count = 0 THEN disable(q) ELSE q
    ELSE p

\* disable_by_count without its outer test.
disable_by_count_unguarded(p) ==
    LET q == [p EXCEPT !.enable_count = @ - 1]
    IN  IF q.enable_count = 0 THEN disable(q) ELSE q

\* disable_by_count without its inner test: every release disables.
disable_by_count_always(p) ==
    IF p.enable_count > 0
    THEN disable([p EXCEPT !.enable_count = @ - 1])
    ELSE p

\* disable_by_count that tests for 0 before it decrements.
disable_by_count_stale_test(p) ==
    IF p.enable_count > 0
    THEN LET q == [p EXCEPT !.enable_count = @ - 1]
         IN  IF p.enable_count = 0 THEN disable(q) ELSE q
    ELSE p

\* kernprof.py:140-147
disable_by_count(p) ==
    IF p.enable_count > 0
    THEN LET q == [p EXCEPT !.enable_count = @ - 1]
         IN  IF q.enable_count = 0 THEN disable(q) ELSE q
    ELSE p

\* __enter__ / __exit__ of the scoped form: acquire on entry, release on
\* exit; __exit__ returns nothing, so an exception in the block propagates.
ScopeEnter(p) == enable_by_count(p)

ScopeExit(p) == disable_by_count(p)

\* ------------------------------------------------------------ bookkeeping
CountOf(s, x) == Cardinality({i \in 1..Len(s) : s[i] = x})

Top == stack[Len(stack)]

Pop == SubSeq(stack, 1, Len(stack) - 1)

\* No function is running: control is at top level or in a with-block.
Outside == \A i \in 1..Len(stack) : stack[i].kind = "scope"

\* Control is at top level or in a function body, not directly in a with-block.
Direct == IF stack = <<>> THEN TRUE ELSE Top.kind = "act"

\* User code is running: at top level, in a with-block or in a function body.
UserCode ==
    /\ ~exc
    /\ IF stack = <<>>
       THEN TRUE
       ELSE \/ Top.kind = "scope"
            \/ Top.kind = "act" /\ Top.st = "run" /\ Top.pc = 1

NoFrame == [kind |-> "none", fn |-> "", n |-> 0, pc |-> 0, via |-> FALSE,
            st |-> "", track |-> "", pre |-> 0]

ActFrame(fn, n, via, track, cnt) ==
    [kind |-> "act", fn |-> fn, n |-> n, pc |-> 0, via |-> via, st |-> "run",
     track |-> track, pre |-> cnt]

ScopeFrame(cnt) == [NoFrame EXCEPT !.kind = "scope", !.pre = cnt]

\* The record of an operation: its name, the state it started from, the
\* underlying calls it made, its argument and its result.
Record(op, p, arg, res) ==
    [op |-> op, pre |-> [Self EXCEPT !.log = <<>>], did |-> p.calls,
     exc |-> exc, depth |-> Len(stack), arg |-> arg, res |-> res]

\* The nested-use driver when it is not running.
DrvOff == [n |-> 0, acq |-> 0, rel |-> 0, inst |-> 0, uninst |-> 0]

\* The threads of the concurrent use.
Threads == {"t1", "t2"}

\* A thread outside the guard: `at' is the line of kernprof.py it is about
\* to run ("idle": none), `tmp' the value it loaded, `made' its calls so far,
\* `held' its acquires not yet released.
ThrIdle == [at |-> "idle", tmp |-> 0, made |-> 0, held |-> 0]

\* The concurrent use when it is not running; `calls' lists the underlying
\* enable()/disable() calls in the order they happen, `acq' and `rel' count
\* the guard calls that have returned.
ThrOff == [t |-> [x \in Threads |-> ThrIdle], calls |-> <<>>, acq |-> 0,
           rel |-> 0]

\* No call in progress: `pend' are the steps still to run, `open' the
\* activations in flight with the line each is on and the time of its
\* latest event, `made' the top-level calls made so far.
JobOff == [pend |-> <<>>, open |-> <<>>, made |-> 0]

\* A value sent into a generator: None or an integer.
NoneVal == [none |-> TRUE, val |-> 0]

IntVal(v) == [none |-> FALSE, val |-> v]

\* What a resumption gives the caller: a yielded value, StopIteration or
\* another exception.
Out(kind, val) == [kind |-> kind, val |-> val]

\* No generator object: `w' is where the wrapper's own generator stands (0
\* not started, 1 suspended at its yield, 3 finished), `pc' where the wrapped
\* g stands, `rpc' where an unwrapped g driven by the same values stands,
\* `out' and `rout' what the latest resumption of each gave, `ticks' the
\* time spent in the caller between resumptions.
GenOff == [st |-> "none", w |-> 0, pc |-> 0, rpc |-> 0,
           out |-> Out("none", 0), rout |-> Out("none", 0), ticks |-> 0]

\* kernprof's main has not started.
KpOff == [pc |-> "off"]

\* Nothing decorated yet: `made' are the results of profile(...), `inv' the
\* calls made through each, `reg' the underlying functions in the order they
\* were handed over, `x' the attribute of the object with the property,
\* `gets' and `sets' the reads and writes of the property, `calls' all uses.
ShOff == [made |-> <<>>, inv |-> <<>>, reg |-> <<>>, x |-> 3, gets |-> 0,
          sets |-> 0, calls |-> 0, built |-> FALSE, gen |-> GenOff]

\* Write the profiler object back.
Install(p) ==
    /\ enable_count' = p.enable_count
    /\ trace' = p.trace
    /\ prev_trace' = p.prev_trace
    /\ tool' = p.tool
    /\ last_time' = p.last_time
    /\ timings' = p.timings
    /\ functions' = p.functions
    /\ wrappers' = p.wrappers
    /\ log' = p.log

AcquireOps == {"enable_by_count", "enter", "call"}

ReleaseOps == {"disable_by_count", "exit", "wrapper_exit"}

\* ------------------------------------------------- the profiled functions
\* f of tests/test_line_profiler.py.
Funcs == {"f"}

\* The source lines a call executes, in order: f's, and those of the one-line
\* functions foo (x + y), the property getter and the property setter.
Path(fn, n) ==
    CASE fn = "foo" -> <<559>>
      [] fn = "getter" -> <<605>>
      [] fn = "setter" -> <<613>>
      [] OTHER -> <<18, 19>>

Args(fn) == {0}

\* ------------------------------------------------------------- callables
Raw(fn) == [kind |-> "func", fn |-> fn, id |-> 0]

WrapperObj(fn, id) == [kind |-> "wrapper", fn |-> fn, id |-> id]

None == [kind |-> "none", fn |-> "", id |-> 0]

\* The code object a callable runs: a wrapper runs the wrapper's own code.
CodeOf(c) == IF c.kind = "func" THEN c.fn ELSE "wrapper"

\* The callables the program has at hand.
Callables ==
    {Raw(fn) : fn \in Funcs}
    \cup {WrapperObj(wrappers[i].fn, i) : i \in 1..Len(wrappers)}

\* An add_function that registers a function once only.
add_function_dedup(p, c) ==
    IF \E i \in 1..Len(p.functions) : p.functions[i] = c THEN p
    ELSE [p EXCEPT !.functions = Append(@, c),
                   !.timings = @ @@ (CodeOf(c) :> << >>)]

\* add_function: the callable joins `functions'; its code unit gets an empty
\* timing entry unless it has one.
add_function(p, c) ==
    [p EXCEPT !.functions = Append(@, c),
              !.timings = IF CodeOf(c) \in DOMAIN @
                          THEN @
                          ELSE @ @@ (CodeOf(c) :> << >>)]

\* wrap_function: register the callable and make a new wrapper object that
\* acquires, calls it and releases.
wrap_function(p, c) ==
    LET q == add_function(p, c)
    IN  [p |-> [q EXCEPT !.wrappers = Append(@, [fn |-> c.fn, target |-> c])],
         ret |-> WrapperObj(c.fn, Len(p.wrappers) + 1)]

\* A bound method obj.fn or a partial application partial(fn, arg): `id' is
\* 0 while it holds the raw function and the wrapper's id once it holds a
\* wrapper; `bind' is the object or the argument it carries.
Shape(kind, fn, id, bind) ==
    [kind |-> kind, fn |-> fn, id |-> id, bind |-> bind, has |-> FALSE]

\* A property: `id' is for its getter, `bind' for its setter when it `has'
\* one.
Property(id, has, set) ==
    [kind |-> "property", fn |-> "getter", id |-> id, bind |-> set,
     has |-> has]

\* What a shape holds: the raw function or its wrapper.
Base(fn, id) == IF id = 0 THEN Raw(fn) ELSE WrapperObj(fn, id)

\* A dispatcher that takes a bound method or a partial for a plain callable.
wrap_shape_opaque(p, c) == wrap_function(p, c)

\* wrap_boundmethod / wrap_partial: wrap the underlying function and put
\* the wrapper where the function was; nothing to do when it holds a
\* wrapper already.
wrap_shape(p, c) ==
    IF c.id > 0 THEN [p |-> p, ret |-> c]
    ELSE LET r == wrap_function(p, Raw(c.fn))
         IN  [p |-> r.p, ret |-> [c EXCEPT !.id = r.ret.id]]

\* A property wrap that wraps the getter whether or not it is wrapped.
wrap_property_rewrap(p, c) ==
    LET g == wrap_function(p, Base(c.fn, c.id))
        s == IF c.has /\ c.bind = 0 THEN wrap_function(g.p, Raw("setter"))
             ELSE [p |-> g.p, ret |-> WrapperObj("setter", c.bind)]
    IN  [p |-> s.p, ret |-> [c EXCEPT !.id = g.ret.id, !.bind = s.ret.id]]

\* wrap_property: wrap the getter unless it is a wrapper already, and the
\* setter, if there is one, unless it is a wrapper already.
wrap_property(p, c) ==
    LET g == IF c.id > 0 THEN [p |-> p, ret |-> WrapperObj(c.fn, c.id)]
             ELSE wrap_function(p, Raw(c.fn))
        s == IF c.has /\ c.bind = 0 THEN wrap_function(g.p, Raw("setter"))
             ELSE [p |-> g.p, ret |-> WrapperObj("setter", c.bind)]
    IN  [p |-> s.p, ret |-> [c EXCEPT !.id = g.ret.id, !.bind = s.ret.id]]

\* An object of a type the dispatcher has no shape for: the integer 42.
Opaque == [kind |-> "object", fn |-> "int", id |-> 0]

\* The error the dispatcher fails with; it names the type it was given.
UnsupportedCallableKind(c) ==
    [kind |-> "error", fn |-> "UnsupportedCallableKind", id |-> 0,
     type |-> c.fn]

\* A dispatcher that wraps what it cannot classify like a plain function.
wrap_callable_silent(p, c) ==
    CASE c.kind = "wrapper" -> [p |-> p, ret |-> c]
      [] c.kind \in {"bound", "partial"} -> wrap_shape(p, c)
      [] c.kind = "property" -> wrap_property(p, c)
      [] OTHER -> wrap_function(p, c)

\* wrap_callable: the dispatcher; an already-wrapped callable is returned
\* as it is, and an input of no known shape is refused.
wrap_callable(p, c) ==
    CASE c.kind = "wrapper" -> [p |-> p, ret |-> c]
      [] c.kind \in {"bound", "partial"} -> wrap_shape(p, c)
      [] c.kind = "property" -> wrap_property(p, c)
      [] c.kind = "object" -> [p |-> p, ret |-> UnsupportedCallableKind(c)]
      [] OTHER -> wrap_function(p, c)

\* __call__ that wraps without dispatching on the callable's shape.
ContextualProfile_call_nodispatch(p, c) == wrap_function(p, c)

\* kernprof.py:130-131
ContextualProfile_call(p, c) == wrap_callable(p, c)

\* ---------------------------------------------------------- event router
\* One Call Frame Timer for all activations.
Timer_shared(lt, act) == lt

\* The Call Frame Timer of an activation.
Timer(lt, act) == {x \in lt : x.act = act}

Entry(tm, fn, line) ==
    IF line \in DOMAIN tm[fn] THEN tm[fn][line] ELSE [hits |-> 0, time |-> 0]

\* A credit that replaces the Line Entry instead of adding to it.
Credit_replace(tm, fn, line, dt) ==
    [tm EXCEPT ![fn] = (line :> [hits |-> 1, time |-> dt]) @@ @]

\* One more hit of `line', and dt more time.
Credit(tm, fn, line, dt) ==
    LET e == Entry(tm, fn, line)
    IN  [tm EXCEPT ![fn] = (line :> [hits |-> e.hits + 1, time |-> e.time + dt])
                           @@ @]

\* The user's hook H handles the event.
H(p, ev) == [p EXCEPT !.log = Append(@, [who |-> "H", ev |-> ev])]

\* Timing logic that credits the line an event announces, as it starts.
Timing_eager(p, ev) ==
    LET old == Timer(p.last_time, ev.act)
        tm == IF ev.type = "line"
              THEN Credit(p.timings, ev.fn, ev.line, 1)
              ELSE p.timings
        rest == p.last_time \ old
        new == [act |-> ev.act, fn |-> ev.fn, line |-> ev.line, t |-> ev.t]
    IN  [p EXCEPT !.timings = tm,
                  !.last_time = IF ev.type = "return" THEN rest
                                ELSE rest \cup {new},
                  !.log = Append(@, [who |-> "E", ev |-> ev])]

\* Timing logic whose timer outlives a suspension: a return event keeps the
\* timer and a call event picks it up.
Timing_resumable(p, ev) ==
    LET old == Timer(p.last_time, ev.act)
        o == CHOOSE x \in old : TRUE
        tm == IF old # {} /\ ev.type # "call" /\ o.line # 0
              THEN Credit(p.timings, o.fn, o.line, ev.t - o.t)
              ELSE p.timings
        rest == p.last_time \ old
        new == [act |-> ev.act, fn |-> ev.fn,
                line |-> IF ev.type = "return" THEN o.line ELSE ev.line,
                t |-> ev.t]
    IN  [p EXCEPT !.timings = tm,
                  !.last_time = IF old # {} /\ ev.type = "call"
                                THEN p.last_time
                                ELSE IF old = {} /\ ev.type = "return"
                                THEN rest
                                ELSE rest \cup {new},
                  !.log = Append(@, [who |-> "E", ev |-> ev])]

\* The engine's timing logic for one event of activation ev.act.
Timing(p, ev) ==
    LET old == Timer(p.last_time, ev.act)
        o == CHOOSE x \in old : TRUE
        tm == IF old # {} /\ ev.type # "call" /\ o.line # 0
              THEN Credit(p.timings, o.fn, o.line, ev.t - o.t)
              ELSE p.timings
        rest == p.last_time \ old
        new == [act |-> ev.act, fn |-> ev.fn, line |-> ev.line, t |-> ev.t]
    IN  [p EXCEPT !.timings = tm,
                  !.last_time = IF ev.type = "return" THEN rest
                                ELSE rest \cup {new},
                  !.log = Append(@, [who |-> "E", ev |-> ev])]

\* The engine observes the event: it is the active hook and the code unit is
\* registered.
Observed(p, ev) == p.trace = "profiler" /\ ev.fn \in DOMAIN p.timings

\* The Event Router: forward to the prior hook first (unless composition is
\* suppressed), then time.
Router(p, ev) ==
    LET q == IF wrap_trace /\ p.prev_trace = "H" THEN H(p, ev) ELSE p
    IN  IF ev.fn \in DOMAIN q.timings THEN Timing(q, ev) ELSE q

\* The interpreter hands the event to the active hook.
Dispatch(p, ev) ==
    IF p.trace = "profiler" THEN Router(p, ev)
    ELSE IF p.trace = "H" THEN H(p, ev)
    ELSE p

\* The interpreter reports one event; the log is that of the latest event.
Report(p, ev) ==
    Dispatch([p EXCEPT !.log = <<[who |-> "I", ev |-> ev]>>], ev)

\* An event, with the time it happens at, the hook the program had installed
\* and whether the profiler was enabled.
Event(type, fn, line, act, en) ==
    [type |-> type, fn |-> fn, line |-> line, act |-> act, t |-> now + 1,
     usr |-> usertrace, en |-> en]

\* ------------------------------------------ what was executed under profiling
\* An activation is tracked "full" while the engine has seen every event of
\* it, "none" while it has seen none, and "broken" otherwise.
Track(old, obs) ==
    IF (old = "full" /\ obs) \/ (old = "none" /\ ~obs) THEN old ELSE "broken"

\* disable() abandons the timers of the activations in flight.
Abandon(stk, did) ==
    IF CountOf(did, "disable") = 0 THEN stk
    ELSE [i \in 1..Len(stk) |->
            IF stk[i].kind = "act" /\ stk[i].st = "run" /\ stk[i].track = "full"
            THEN [stk[i] EXCEPT !.track = "broken"]
            ELSE stk[i]]

Clean(stk) == \A i \in 1..Len(stk) : stk[i].track # "broken"

\* The executions of each line in the first k steps of a path, added to e.
RECURSIVE Count(_, _, _, _)
Count(e, fn, path, k) ==
    IF k = 0 THEN e
    ELSE LET d == IF fn \in DOMAIN e THEN e ELSE e @@ (fn :> << >>)
             c == IF path[k] \in DOMAIN d[fn] THEN d[fn][path[k]] ELSE 0
         IN  Count([d EXCEPT ![fn] = (path[k] :> c + 1) @@ @], fn, path, k - 1)

Hits(tm) == [fn \in DOMAIN tm |-> [l \in DOMAIN tm[fn] |-> tm[fn][l].hits]]

\* ------------------------------------------------------------------- Init
\* The state after LineProfiler(wrap_trace=...) / ContextualProfile() is
\* constructed in a program whose trace hook is h.
Constructed(h) ==
    /\ enable_count = 0
    /\ trace = h
    /\ prev_trace = "None"
    /\ tool = "None"
    /\ wrap_trace \in BOOLEAN
    /\ usertrace = h
    /\ last_time = {}
    /\ timings = << >>
    /\ functions = <<>>
    /\ wrappers = <<>>
    /\ now = 0
    /\ log = <<>>
    /\ stack = <<>>
    /\ exc = FALSE
    /\ ncalls = 0
    /\ last = [op |-> "init", pre |-> Self, did |-> <<>>, exc |-> FALSE,
               depth |-> 0, arg |-> None, res |-> None]
    /\ expected = << >>
    /\ allclean = TRUE

Init ==
    /\ Constructed("None")
    /\ drv = DrvOff
    /\ thr = ThrOff
    /\ job = JobOff
    /\ sh = ShOff
    /\ kp = KpOff

\* ---------------------------------------------------------------- actions
\* profile.enable_by_count() called by user code, at top level or in a
\* function body.
EnableByCount ==
    /\ UserCode
    /\ Direct
    /\ enable_count < MaxNest
    /\ LET p == enable_by_count(Self)
       IN  /\ Install(p)
           /\ last' = Record("enable_by_count", p, None, None)
    /\ UNCHANGED <<wrap_trace, usertrace, now, stack, exc, ncalls, expected,
                   allclean, elsewhere>>

\* profile.disable_by_count() called by user code, at top level or in a
\* function body.
DisableByCount ==
    /\ UserCode
    /\ Direct
    /\ LET p == disable_by_count(Self)
       IN  /\ Install(p)
           /\ last' = Record("disable_by_count", p, None, None)
           /\ stack' = Abandon(stack, p.calls)
    /\ allclean' = (allclean /\ Clean(stack'))
    /\ UNCHANGED <<wrap_trace, usertrace, now, exc, ncalls, expected,
                   elsewhere>>

\* `with profile:' is entered.
EnterScope ==
    /\ UserCode
    /\ Outside
    /\ enable_count < MaxNest
    /\ Len(stack) < MaxNest
    /\ LET p == ScopeEnter(Self)
       IN  /\ Install(p)
           /\ last' = Record("enter", p, None, None)
    /\ stack' = Append(stack, ScopeFrame(enable_count))
    /\ UNCHANGED <<wrap_trace, usertrace, now, exc, ncalls, expected,
                   allclean, elsewhere>>

\* The with-block is left, at its end or by the exception propagating
\* through it.
ExitScope ==
    /\ stack # <<>>
    /\ Top.kind = "scope"
    /\ LET p == ScopeExit(Self)
       IN  /\ Install(p)
           /\ last' = Record("exit", p, Top, None)
           /\ stack' = Abandon(Pop, p.calls)
    /\ allclean' = (allclean /\ Clean(stack'))
    /\ UNCHANGED <<wrap_trace, usertrace, now, exc, ncalls, expected,
                   elsewhere>>

\* User code raises.
Raise ==
    /\ UserCode
    /\ stack # <<>>
    /\ exc' = TRUE
    /\ last' = Record("raise", Self, None, None)
    /\ UNCHANGED <<enable_count, trace, prev_trace, tool, wrap_trace, usertrace,
                   last_time, timings, functions, wrappers, now, log, stack,
                   ncalls, expected, allclean, elsewhere>>

\* The exception reaches the top-level caller, which handles it.
Catch ==
    /\ exc
    /\ stack = <<>>
    /\ exc' = FALSE
    /\ last' = Record("catch", Self, None, None)
    /\ UNCHANGED <<enable_count, trace, prev_trace, tool, wrap_trace, usertrace,
                   last_time, timings, functions, wrappers, now, log, stack,
                   ncalls, expected, allclean, elsewhere>>

\* sys.settrace(h) at top level while the profiler is not enabled.
SetTrace ==
    /\ UserCode
    /\ stack = <<>>
    /\ enable_count = 0
    /\ \E h \in {"None", "H"} :
        /\ h # trace
        /\ trace' = h
        /\ usertrace' = h
    /\ last' = Record("settrace", Self, None, None)
    /\ UNCHANGED <<enable_count, prev_trace, tool, wrap_trace, last_time, timings,
                   functions, wrappers, now, log, stack, exc, ncalls,
                   expected, allclean, elsewhere>>

\* profile(c) at top level: c is a raw function or a wrapper made earlier.
Wrap ==
    /\ UserCode
    /\ stack = <<>>
    /\ \E c \in Callables :
        LET r == ContextualProfile_call(Self, c)
        IN  /\ Len(wrappers) <= MaxWrappers
            /\ c.kind = "func" => Len(wrappers) < MaxWrappers
            /\ Install(r.p)
            /\ last' = Record("wrap", r.p, c, r.ret)
    /\ UNCHANGED <<wrap_trace, usertrace, now, stack, exc, ncalls, expected,
                   allclean, elsewhere>>

\* User code calls c(n).  A wrapper acquires first; then the interpreter
\* reports the call of the function's frame.
Call ==
    /\ UserCode
    /\ Outside
    /\ now < MaxEvents
    /\ Len(stack) < MaxNest
    /\ \E c \in Callables : \E n \in Args(c.fn) :
        LET via == c.kind = "wrapper"
            p1 == IF via THEN enable_by_count(Self) ELSE Self
            ev == Event("call", c.fn, 0, Len(stack) + 1, p1.enable_count > 0)
            p2 == Report(p1, ev)
            tr == IF Observed(p1, ev) THEN "full" ELSE "none"
        IN  /\ via => enable_count < MaxNest
            /\ Install(p2)
            /\ stack' = Append(stack, ActFrame(c.fn, n, via, tr, enable_count))
            /\ last' = Record(IF via THEN "call" ELSE "plain_call", p2, c, None)
    /\ now' = now + 1
    /\ ncalls' = ncalls + 1
    /\ UNCHANGED <<wrap_trace, usertrace, exc, expected, allclean, elsewhere>>

\* The running function reaches its next line.
Line ==
    /\ ~exc
    /\ now < MaxEvents
    /\ stack # <<>>
    /\ Top.kind = "act"
    /\ Top.st = "run"
    /\ Top.pc < Len(Path(Top.fn, Top.n))
    /\ LET ev == Event("line", Top.fn, Path(Top.fn, Top.n)[Top.pc + 1],
                       Len(stack), enable_count > 0)
           p == Report(Self, ev)
           tr == Track(Top.track, Observed(Self, ev))
       IN  /\ Install(p)
           /\ stack' = [stack EXCEPT ![Len(stack)].pc = @ + 1,
                                     ![Len(stack)].track = tr]
           /\ last' = Record("line", p, Top, None)
    /\ allclean' = (allclean /\ Clean(stack'))
    /\ now' = now + 1
    /\ UNCHANGED <<wrap_trace, usertrace, exc, ncalls, expected, elsewhere>>

\* The running function returns, after its last line or by the exception
\* propagating out of it.  A wrapper's `finally' is still to run.
Return ==
    /\ stack # <<>>
    /\ Top.kind = "act"
    /\ Top.st = "run"
    /\ exc \/ Top.pc = Len(Path(Top.fn, Top.n))
    /\ now < MaxEvents
    /\ LET line == IF Top.pc = 0 THEN 0 ELSE Path(Top.fn, Top.n)[Top.pc]
           ev == Event("return", Top.fn, line, Len(stack), enable_count > 0)
           p == Report(Self, ev)
           tr == Track(Top.track, Observed(Self, ev))
           done == [Top EXCEPT !.st = "finally", !.track = tr]
       IN  /\ Install(p)
           /\ stack' = IF Top.via THEN Append(Pop, done) ELSE Pop
           /\ expected' = IF tr = "full"
                          THEN Count(expected, Top.fn, Path(Top.fn, Top.n),
                                     Top.pc)
                          ELSE expected
           /\ allclean' = (allclean /\ tr # "broken")
           /\ last' = Record("return", p, done, None)
    /\ now' = now + 1
    /\ UNCHANGED <<wrap_trace, usertrace, exc, ncalls, elsewhere>>

\* The wrapper's `finally': release.
WrapperExit ==
    /\ stack # <<>>
    /\ Top.kind = "act"
    /\ Top.st = "finally"
    /\ LET p == disable_by_count(Self)
       IN  /\ Install(p)
           /\ last' = Record("wrapper_exit", p, Top, None)
           /\ stack' = Abandon(Pop, p.calls)
    /\ allclean' = (allclean /\ Clean(stack'))
    /\ UNCHANGED <<wrap_trace, usertrace, now, exc, ncalls, expected,
                   elsewhere>>

Next ==
    \/ EnableByCount
    \/ DisableByCount
    \/ EnterScope
    \/ ExitScope
    \/ Raise
    \/ Catch
    \/ SetTrace
    \/ Wrap
    \/ Call
    \/ Line
    \/ Return
    \/ WrapperExit

Spec == Init /\ [][Next]_vars

\* ------------------------------------------------------------- nested use
\* test_enable_disable's pattern for any n: n calls of enable_by_count, then
\* n calls of disable_by_count, in one thread; the driver counts the
\* underlying enable() and disable() calls.
Hooks == {"None", "H"}

rest == <<wrap_trace, usertrace, now, stack, exc, ncalls, expected, allclean>>

InitNest ==
    /\ \E h \in Hooks : Constructed(h)
    /\ \E n \in 0..MaxAcquires : drv = [DrvOff EXCEPT !.n = n]
    /\ thr = ThrOff
    /\ job = JobOff
    /\ sh = ShOff
    /\ kp = KpOff

NestAcquire ==
    /\ drv.acq < drv.n
    /\ LET p == enable_by_count(Self)
       IN  /\ Install(p)
           /\ last' = Record("enable_by_count", p, None, None)
           /\ drv' = [drv EXCEPT !.acq = @ + 1,
                                 !.inst = @ + CountOf(p.calls, "enable"),
                                 !.uninst = @ + CountOf(p.calls, "disable")]
    /\ UNCHANGED <<rest, thr, job, sh, kp>>

NestRelease ==
    /\ drv.acq = drv.n
    /\ drv.rel < drv.n
    /\ LET p == disable_by_count(Self)
       IN  /\ Install(p)
           /\ last' = Record("disable_by_count", p, None, None)
           /\ drv' = [drv EXCEPT !.rel = @ + 1,
                                 !.inst = @ + CountOf(p.calls, "enable"),
                                 !.uninst = @ + CountOf(p.calls, "disable")]
    /\ UNCHANGED <<rest, thr, job, sh, kp>>

NextNest ==
    \/ NestAcquire
    \/ NestRelease

SpecNest == InitNest /\ [][NextNest]_vars

\* --------------------------------------------------------- concurrent use
\* Several threads call the guard.  The interpreter can switch threads
\* between any two bytecodes, so each thread goes through enable_by_count
\* and disable_by_count one read, test, call or write at a time; the
\* statements are named by their lines in kernprof.py.
InitThreads ==
    /\ Constructed("None")
    /\ drv = DrvOff
    /\ thr = ThrOff
    /\ job = JobOff
    /\ sh = ShOff
    /\ kp = KpOff

Goto(x, line) == [thr EXCEPT !.t[x].at = line]

Returned(x, op) ==
    [thr EXCEPT !.t[x].at = "idle",
                !.t[x].held = IF op = "acq" THEN @ + 1 ELSE @ - 1,
                !.acq = IF op = "acq" THEN @ + 1 ELSE @,
                !.rel = IF op = "rel" THEN @ + 1 ELSE @]

Same == UNCHANGED <<enable_count, trace, prev_trace, tool, last_time, timings,
                    functions, wrappers, log, last, drv, job, sh, kp, rest>>

\* A thread calls enable_by_count().
ThreadCallEnable(x) ==
    /\ thr.t[x].at = "idle"
    /\ thr.t[x].made < MaxThreadCalls
    /\ thr' = [thr EXCEPT !.t[x].at = "136", !.t[x].made = @ + 1]
    /\ Same

\* line 136: if self.enable_count == 0:
ThreadTestZero(x) ==
    /\ thr.t[x].at = "136"
    /\ thr' = Goto(x, IF enable_count = 0 THEN "137" ELSE "138r")
    /\ Same

\* line 137: self.enable(subcalls=subcalls, builtins=builtins)
ThreadEnable(x) ==
    /\ thr.t[x].at = "137"
    /\ LET p == enable(Self)
       IN  /\ Install(p)
           /\ thr' = [Goto(x, "138r") EXCEPT !.calls = @ \o p.calls]
    /\ UNCHANGED <<last, drv, job, sh, kp, rest>>

\* line 138, first half: the read of self.enable_count += 1
ThreadLoadInc(x) ==
    /\ thr.t[x].at = "138r"
    /\ thr' = [Goto(x, "138w") EXCEPT !.t[x].tmp = enable_count]
    /\ Same

\* line 138, second half: the write of self.enable_count += 1
ThreadStoreInc(x) ==
    /\ thr.t[x].at = "138w"
    /\ enable_count' = thr.t[x].tmp + 1
    /\ thr' = Returned(x, "acq")
    /\ UNCHANGED <<trace, prev_trace, tool, last_time, timings, functions,
                   wrappers, log, last, drv, job, sh, kp, rest>>

\* A thread calls disable_by_count() for an acquire it holds.
ThreadCallDisable(x) ==
    /\ thr.t[x].at = "idle"
    /\ thr.t[x].held > 0
    /\ thr.t[x].made < MaxThreadCalls
    /\ thr' = [thr EXCEPT !.t[x].at = "144", !.t[x].made = @ + 1]
    /\ Same

\* line 144: if self.enable_count > 0:
ThreadTestPositive(x) ==
    /\ thr.t[x].at = "144"
    /\ thr' = IF enable_count > 0 THEN Goto(x, "145r") ELSE Returned(x, "rel")
    /\ Same

\* line 145, first half: the read of self.enable_count -= 1
ThreadLoadDec(x) ==
    /\ thr.t[x].at = "145r"
    /\ thr' = [Goto(x, "145w") EXCEPT !.t[x].tmp = enable_count]
    /\ Same

\* line 145, second half: the write of self.enable_count -= 1
ThreadStoreDec(x) ==
    /\ thr.t[x].at = "145w"
    /\ enable_count' = thr.t[x].tmp - 1
    /\ thr' = Goto(x, "146")
    /\ UNCHANGED <<trace, prev_trace, tool, last_time, timings, functions,
                   wrappers, log, last, drv, job, sh, kp, rest>>

\* line 146: if self.enable_count == 0:
ThreadTestLast(x) ==
    /\ thr.t[x].at = "146"
    /\ thr' = IF enable_count = 0 THEN Goto(x, "147") ELSE Returned(x, "rel")
    /\ Same

\* line 147: self.disable()
ThreadDisable(x) ==
    /\ thr.t[x].at = "147"
    /\ LET p == disable(Self)
       IN  /\ Install(p)
           /\ thr' = [Returned(x, "rel") EXCEPT !.calls = @ \o p.calls]
    /\ UNCHANGED <<last, drv, job, sh, kp, rest>>

NextThreads ==
    \/ \E x \in Threads : ThreadCallEnable(x)
    \/ \E x \in Threads : ThreadTestZero(x)
    \/ \E x \in Threads : ThreadEnable(x)
    \/ \E x \in Threads : ThreadLoadInc(x)
    \/ \E x \in Threads : ThreadStoreInc(x)
    \/ \E x \in Threads : ThreadCallDisable(x)
    \/ \E x \in Threads : ThreadTestPositive(x)
    \/ \E x \in Threads : ThreadLoadDec(x)
    \/ \E x \in Threads : ThreadStoreDec(x)
    \/ \E x \in Threads : ThreadTestLast(x)
    \/ \E x \in Threads : ThreadDisable(x)

SpecThreads == InitThreads /\ [][NextThreads]_vars

\* -------------------------------------------------------------- recursion
\* A function decorated with the profiler that calls itself:
\*     @profile
\*     def rec(n):
\*         if n == 0: return 0        (line 1)
\*         return rec(n - 1)          (line 2)
\* The name rec is bound to the wrapper, so every inner call acquires and
\* releases too.  A call runs one step at a time.
Step(type, fn, line, act) == [type |-> type, fn |-> fn, line |-> line, act |-> act]

\* The steps of rec(n) called through the wrapper as activation `act'.
RECURSIVE Steps(_, _)
Steps(n, act) ==
    <<Step("acquire", "rec", 0, act), Step("call", "rec", 0, act),
      Step("line", "rec", 1, act)>>
    \o (IF n = 0 THEN <<Step("return", "rec", 1, act)>>
        ELSE <<Step("line", "rec", 2, act)>> \o Steps(n - 1, act + 1)
             \o <<Step("return", "rec", 2, act)>>)
    \o <<Step("release", "rec", 0, act)>>

\* The activations in flight after a step.
Opened(open, s, t) ==
    IF s.type = "call" THEN Append(open, [act |-> s.act, line |-> 0, t |-> t])
    ELSE IF s.type = "line"
    THEN [open EXCEPT ![Len(open)] = [act |-> s.act, line |-> s.line, t |-> t]]
    ELSE IF s.type = "return" THEN SubSeq(open, 1, Len(open) - 1)
    ELSE open

InitRec ==
    /\ \E h \in Hooks : Constructed(h)
    /\ drv = DrvOff
    /\ thr = ThrOff
    /\ job = JobOff
    /\ sh = ShOff
    /\ kp = KpOff

\* rec = profile(rec)
RecWrap ==
    /\ wrappers = <<>>
    /\ LET r == ContextualProfile_call(Self, Raw("rec"))
       IN  /\ Install(r.p)
           /\ last' = Record("wrap", r.p, Raw("rec"), r.ret)
    /\ UNCHANGED <<rest, drv, thr, job, sh, kp>>

\* User code calls rec(n).
RecInvoke ==
    /\ wrappers # <<>>
    /\ job.pend = <<>>
    /\ job.made < MaxInvokes
    /\ \E n \in 0..MaxDepth :
        job' = [job EXCEPT !.pend = Steps(n, 1), !.made = @ + 1]
    /\ ncalls' = ncalls + 1
    /\ UNCHANGED <<enable_count, trace, prev_trace, tool, last_time, timings,
                   functions, wrappers, log, last, wrap_trace, usertrace, now,
                   stack, exc, expected, allclean, drv, thr, sh, kp>>

\* The wrapper acquires or releases.
RecGuard ==
    /\ job.pend # <<>>
    /\ Head(job.pend).type \in {"acquire", "release"}
    /\ LET s == Head(job.pend)
           p == IF s.type = "acquire" THEN enable_by_count(Self)
                ELSE disable_by_count(Self)
       IN  /\ Install(p)
           /\ last' = Record(IF s.type = "acquire" THEN "call"
                             ELSE "wrapper_exit", p, None, None)
    /\ job' = [job EXCEPT !.pend = Tail(@)]
    /\ UNCHANGED <<rest, drv, thr, sh, kp>>

\* The interpreter reports the next call, line or return event of rec.
RecEvent ==
    /\ job.pend # <<>>
    /\ Head(job.pend).type \in {"call", "line", "return"}
    /\ LET s == Head(job.pend)
           ev == Event(s.type, s.fn, s.line, s.act, enable_count > 0)
           p == Report(Self, ev)
       IN  /\ Install(p)
           /\ last' = Record(s.type, p, None, None)
           /\ job' = [job EXCEPT !.pend = Tail(@),
                                 !.open = Opened(@, s, now + 1)]
           /\ expected' = IF s.type = "line"
                          THEN Count(expected, s.fn, <<s.line>>, 1)
                          ELSE expected
    /\ now' = now + 1
    /\ UNCHANGED <<wrap_trace, usertrace, stack, exc, ncalls, allclean, drv,
                   thr, sh, kp>>

NextRec ==
    \/ RecWrap
    \/ RecInvoke
    \/ RecGuard
    \/ RecEvent

SpecRec == InitRec /\ [][NextRec]_vars

\* ----------------------------------------------------------------- shapes
\* Bound methods and partials of foo and a property are decorated, as in
\* test_boundmethod_decorator, test_partial_decorator and
\* test_property_decorator, and then used.  A use runs in one step: the
\* wrapper's acquire, the events of the underlying function, the release.

\* What a function computes.
Body(fn, args) ==
    CASE fn = "foo" -> args[1] + args[2]
      [] fn = "getter" -> args[1] * 2
      [] fn = "setter" -> args[2] \div 2
      [] OTHER -> args[1] + 10

\* What calling a callable with `args' gives: a wrapper calls its target, a
\* bound method or partial calls what it holds with its own argument first,
\* a property read calls the getter.
RECURSIVE Apply(_, _, _)
Apply(ws, c, args) ==
    CASE c.kind = "func" -> Body(c.fn, args)
      [] c.kind = "wrapper" -> Apply(ws, ws[c.id].target, args)
      [] c.kind = "property" -> Apply(ws, Base(c.fn, c.id), args)
      [] OTHER -> Apply(ws, Base(c.fn, c.id), <<c.bind>> \o args)

\* A property write calls the setter.
ApplySet(ws, c, args) == Apply(ws, Base("setter", c.bind), args)

\* The steps of the call of a function's code: call, lines, return.
CodeSteps(fn, act) ==
    <<Step("call", fn, 0, act)>>
    \o [i \in 1..Len(Path(fn, 0)) |-> Step("line", fn, Path(fn, 0)[i], act)]
    \o <<Step("return", fn, Path(fn, 0)[Len(Path(fn, 0))], act)>>

\* The steps of a call of a callable: each wrapper on the way acquires
\* before and releases after.
RECURSIVE CallSteps(_, _, _)
CallSteps(ws, c, act) ==
    CASE c.kind = "func" -> CodeSteps(c.fn, act)
      [] c.kind = "wrapper" ->
            <<Step("acquire", c.fn, 0, act)>>
            \o CallSteps(ws, ws[c.id].target, act)
            \o <<Step("release", c.fn, 0, act)>>
      [] OTHER -> CallSteps(ws, Base(c.fn, c.id), act)

\* Run steps from time t on: the profiler object afterwards.
RECURSIVE RunSteps(_, _, _)
RunSteps(p, steps, t) ==
    IF steps = <<>> THEN p
    ELSE LET s == Head(steps)
         IN  IF s.type = "acquire"
             THEN RunSteps(enable_by_count(p), Tail(steps), t)
             ELSE IF s.type = "release"
             THEN RunSteps(disable_by_count(p), Tail(steps), t)
             ELSE RunSteps(Report(p, [type |-> s.type, fn |-> s.fn,
                                      line |-> s.line, act |-> s.act,
                                      t |-> t + 1, usr |-> usertrace,
                                      en |-> p.enable_count > 0]),
                           Tail(steps), t + 1)

\* The trace events among steps, and the line events among them.
EventsIn(steps) ==
    SelectSeq(steps, LAMBDA s : s.type \in {"call", "line", "return"})

LinesIn(steps) == SelectSeq(steps, LAMBDA s : s.type = "line")

\* The line executions of steps, added to e.
RECURSIVE CountLines(_, _)
CountLines(e, steps) ==
    IF steps = <<>> THEN e
    ELSE CountLines(Count(e, Head(steps).fn, <<Head(steps).line>>, 1),
                    Tail(steps))

\* The functions a decoration hands to the profiler: what the shape holds
\* raw.
Underlying(c) ==
    CASE c.kind = "func" -> <<c.fn>>
      [] c.kind = "property" ->
            (IF c.id = 0 THEN <<"getter">> ELSE <<>>)
            \o (IF c.has /\ c.bind = 0 THEN <<"setter">> ELSE <<>>)
      [] OTHER -> IF c.id = 0 THEN <<c.fn>> ELSE <<>>

\* The shapes the program decorates: two bound methods and a partial of
\* foo, a property, and a decorated property given a setter.
Decorables ==
    {Shape("bound", "foo", 0, o) : o \in {1, 2}}
    \cup {Shape("partial", "foo", 0, 2)}
    \cup {Property(0, FALSE, 0)}
    \cup {[sh.made[i] EXCEPT !.has = TRUE, !.bind = 0] :
            i \in {j \in 1..Len(sh.made) :
                     sh.made[j].kind = "property" /\ ~sh.made[j].has}}

\* g(10) resumed at pc with a sent value: where it stands afterwards, what
\* the caller gets, the lines it ran and whether its frame ran at all.
\*     def g(x):
\*         y = yield x + 10      (line 23)
\*         yield y + 20          (line 24)
GenNext(pc, sent) ==
    CASE pc = 0 ->
            IF sent.none
            THEN [pc |-> 1, out |-> Out("yield", 10 + 10), lines |-> <<23>>,
                  ran |-> TRUE]
            ELSE [pc |-> 0, out |-> Out("raise", 0), lines |-> <<>>,
                  ran |-> FALSE]
      [] pc = 1 ->
            IF sent.none
            THEN [pc |-> 3, out |-> Out("raise", 0), lines |-> <<24>>,
                  ran |-> TRUE]
            ELSE [pc |-> 2, out |-> Out("yield", sent.val + 20),
                  lines |-> <<24>>, ran |-> TRUE]
      [] pc = 2 ->
            [pc |-> 3, out |-> Out("stop", 0), lines |-> <<>>, ran |-> TRUE]
      [] OTHER ->
            [pc |-> 3, out |-> Out("stop", 0), lines |-> <<>>, ran |-> FALSE]

\* The steps of one resumption of g's frame.
GenSteps(r) ==
    IF r.ran
    THEN <<Step("call", "g", 0, 1)>>
         \o [i \in 1..Len(r.lines) |-> Step("line", "g", r.lines[i], 1)]
         \o <<Step("return", "g", 0, 1)>>
    ELSE <<>>

\* One resumption of the wrapper's generator, given where it and g stand.
Resumed(w, r) ==
    [w |-> IF r.out.kind = "yield" THEN 1 ELSE 3, pc |-> r.pc, out |-> r.out,
     steps |-> <<Step("acquire", "g", 0, 1)>> \o GenSteps(r)
               \o <<Step("release", "g", 0, 1)>>]

\* A wrapper that resumes g with next() every time.
wrapped_next_dropsend(w, pc, sent) ==
    CASE w = 0 ->
            IF sent.none THEN Resumed(w, GenNext(pc, NoneVal))
            ELSE [w |-> 0, pc |-> pc, out |-> Out("raise", 0), steps |-> <<>>]
      [] w = 1 -> Resumed(w, GenNext(pc, NoneVal))
      [] OTHER -> [w |-> 3, pc |-> pc, out |-> Out("stop", 0), steps |-> <<>>]

\* wrap_generator's wrapper: the first resumption does next(g), the later
\* ones g.send(value); each acquires before and releases after; what g
\* yields is yielded on, and g's StopIteration or exception ends the wrapper
\* the same way.
wrapped_next(w, pc, sent) ==
    CASE w = 0 ->
            IF sent.none THEN Resumed(w, GenNext(pc, NoneVal))
            ELSE [w |-> 0, pc |-> pc, out |-> Out("raise", 0), steps |-> <<>>]
      [] w = 1 -> Resumed(w, GenNext(pc, sent))
      [] OTHER -> [w |-> 3, pc |-> pc, out |-> Out("stop", 0), steps |-> <<>>]

RECURSIVE AddAll(_, _)
AddAll(p, fs) ==
    IF fs = <<>> THEN p ELSE AddAll(add_function(p, Raw(Head(fs))), Tail(fs))

InitShapes ==
    /\ Constructed("None")
    /\ drv = DrvOff
    /\ thr = ThrOff
    /\ job = JobOff
    /\ sh = ShOff
    /\ kp = KpOff

shrest == <<wrap_trace, usertrace, stack, exc, ncalls, allclean, drv, thr, job, kp>>

\* LineProfiler(f, g): the constructor registers its arguments.
ShConstruct ==
    /\ ~sh.built
    /\ functions = <<>>
    /\ \E fs \in {<<"f">>, <<"f", "g">>} :
        LET p == AddAll(Self, fs)
        IN  /\ Install(p)
            /\ last' = Record("construct", p, None, None)
            /\ sh' = [sh EXCEPT !.built = TRUE, !.reg = fs]
    /\ UNCHANGED <<shrest, now, expected>>

\* profile(c) for a shape c.
ShWrap ==
    /\ sh.calls = 0
    /\ sh.gen.st = "none"
    /\ Len(sh.made) < MaxWraps
    /\ \E c \in Decorables :
        LET r == ContextualProfile_call(Self, c)
        IN  /\ Install(r.p)
            /\ last' = Record("wrap", r.p, c, r.ret)
            /\ sh' = [sh EXCEPT !.made = Append(@, r.ret),
                                !.inv = Append(@, 0),
                                !.reg = @ \o Underlying(c),
                                !.built = TRUE]
    /\ UNCHANGED <<shrest, now, expected>>

\* profile(42): the decoration of something that is not callable fails and
\* the program goes on.
ShWrapBad ==
    /\ sh.calls = 0
    /\ sh.gen.st = "none"
    /\ LET r == ContextualProfile_call(Self, Opaque)
       IN  /\ Install(r.p)
           /\ last' = Record("wrap", r.p, Opaque, r.ret)
    /\ UNCHANGED <<sh, shrest, now, expected>>

\* One use of a decorated shape: its steps run, the clock moves by its
\* events, and the lines it ran are counted.
Use(op, c, steps, res) ==
    LET p == RunSteps(Self, steps, now)
    IN  /\ Install(p)
        /\ last' = Record(op, p, c, res)
        /\ now' = now + Len(EventsIn(steps))
        /\ expected' = CountLines(expected, LinesIn(steps))

\* A decorated bound method or partial is called with an argument.
ShCall ==
    /\ sh.calls < MaxCalls
    /\ \E i \in 1..Len(sh.made) : \E a \in {3} :
        /\ sh.made[i].kind \in {"bound", "partial"}
        /\ Use("invoke", sh.made[i], CallSteps(wrappers, sh.made[i], 1),
               Apply(wrappers, sh.made[i], <<a>>))
        /\ sh' = [sh EXCEPT !.inv[i] = @ + 1, !.calls = @ + 1]
    /\ UNCHANGED shrest

\* obj.foo is read.
ShGet ==
    /\ sh.calls < MaxCalls
    /\ \E i \in 1..Len(sh.made) :
        /\ sh.made[i].kind = "property"
        /\ Use("get", sh.made[i], CallSteps(wrappers, sh.made[i], 1),
               Apply(wrappers, sh.made[i], <<sh.x>>))
        /\ sh' = [sh EXCEPT !.gets = @ + 1, !.calls = @ + 1]
    /\ UNCHANGED shrest

\* obj.foo = 10
ShSet ==
    /\ sh.calls < MaxCalls
    /\ \E i \in 1..Len(sh.made) : \E v \in {10} :
        /\ sh.made[i].kind = "property"
        /\ sh.made[i].has
        /\ Use("set", sh.made[i],
               CallSteps(wrappers, Base("setter", sh.made[i].bind), 1), None)
        /\ sh' = [sh EXCEPT !.x = ApplySet(wrappers, sh.made[i], <<sh.x, v>>),
                            !.sets = @ + 1, !.calls = @ + 1]
    /\ UNCHANGED shrest

\* profile(f), profile(g): a plain function, a generator function.
ShWrapFunc ==
    /\ sh.calls = 0
    /\ sh.gen.st = "none"
    /\ Len(sh.made) < MaxWraps
    /\ \E fn \in {"f", "g"} :
        LET r == ContextualProfile_call(Self, Raw(fn))
        IN  /\ \A i \in 1..Len(wrappers) : wrappers[i].fn # fn
            /\ Install(r.p)
            /\ last' = Record("wrap", r.p, Raw(fn), r.ret)
            /\ sh' = [sh EXCEPT !.made = Append(@, r.ret),
                                !.inv = Append(@, 0),
                                !.reg = @ \o Underlying(Raw(fn)),
                                !.built = TRUE]
    /\ UNCHANGED <<shrest, now, expected>>

\* i = g_wrapped(10): a generator object is made; nothing runs.
GenCreate ==
    /\ sh.gen.st = "none"
    /\ \E i \in 1..Len(wrappers) : wrappers[i].fn = "g"
    /\ sh' = [sh EXCEPT !.gen.st = "live"]
    /\ last' = Record("create", Self, None, None)
    /\ UNCHANGED <<enable_count, trace, prev_trace, tool, last_time, timings,
                   functions, wrappers, log, shrest, now, expected>>

\* next(i) or i.send(v): the wrapper's generator is resumed, and an unwrapped
\* g is resumed with the same value beside it.
GenResume ==
    /\ sh.gen.st = "live"
    /\ sh.calls < MaxCalls
    /\ \E v \in {NoneVal, IntVal(30)} :
        LET r == wrapped_next(sh.gen.w, sh.gen.pc, v)
            ref == GenNext(sh.gen.rpc, v)
        IN  /\ Use("resume", [None EXCEPT !.kind = "generator"], r.steps,
                   [acquired |-> r.steps # <<>>,
                    ran |-> Len(EventsIn(r.steps)) > 0])
            /\ sh' = [sh EXCEPT !.gen.w = r.w, !.gen.pc = r.pc,
                                !.gen.rpc = ref.pc, !.gen.out = r.out,
                                !.gen.rout = ref.out, !.calls = @ + 1]
    /\ UNCHANGED shrest

\* Time passes in the caller while the generator is suspended.
CallerTick ==
    /\ sh.gen.st = "live"
    /\ sh.gen.w = 1
    /\ sh.gen.ticks < MaxTicks
    /\ now' = now + 1
    /\ sh' = [sh EXCEPT !.gen.ticks = @ + 1]
    /\ UNCHANGED <<enable_count, trace, prev_trace, tool, last_time, timings,
                   functions, wrappers, log, last, shrest, expected>>

\* The caller enables the profiler itself before it uses what it decorated,
\* and keeps it enabled.
ShHold ==
    /\ sh.calls = 0
    /\ sh.gen.st = "none"
    /\ enable_count = 0
    /\ Install(enable_by_count(Self))
    /\ last' = Record("hold", enable_by_count(Self), None, None)
    /\ UNCHANGED <<sh, shrest, now, expected>>

NextShapes ==
    \/ ShConstruct
    \/ ShWrap
    \/ ShWrapFunc
    \/ ShWrapBad
    \/ ShCall
    \/ ShGet
    \/ ShSet
    \/ GenCreate
    \/ GenResume
    \/ CallerTick
    \/ ShHold

SpecShapes == InitShapes /\ [][NextShapes]_vars

\* --------------------------------------------------- kernprof: main, dumpers
\* kernprof's main runs a target script under the profiler; with
\* --output-interval it starts RepeatedTimer objects that dump the statistics
\* periodically from timer threads.  The wall clock ticks in half seconds.
\* Under SpecKern the methods of RepeatedTimer run in one step each; under
\* SpecDumper one RepeatedTimer is used beside an execution, and the thread
\* that uses it and the timer threads run between one another statement by
\* statement of its methods.

\* max(a, b)
Max(a, b) == IF a >= b THEN a ELSE b

\* n seconds, in ticks of the clock.
Seconds(n) == 2 * n

\* No Line Entry is being updated.
NoWrite == [fn |-> "", line |-> 0, dt |-> 0]

\* No snapshot: a snapshot holds the entries (`data'), or refers to the live
\* store (`alias'); `pre' and `w' are the store and the update in progress
\* when it was taken.
NoSnap == [alias |-> FALSE, data |-> << >>, pre |-> << >>, w |-> NoWrite]

\* main, about to reach line 550 with options.output_interval = oi: `pc' is
\* the line main is at, `rts' the RepeatedTimer objects made so far,
\* `timers' the threading.Timer objects with the position of their threads,
\* `sink' the deliveries to the outfile, `finals' the final exports made,
\* `tpc' where the target's call of f stands, `writing' the Line Entry update
\* in progress, `outcome' how the target ended.
KpNew(oi) ==
    [pc |-> "550", oi |-> oi, rts |-> <<>>, timers |-> <<>>, clock |-> 0,
     sink |-> <<>>, finals |-> 0, tpc |-> 0, runs |-> 0,
     writing |-> NoWrite, outcome |-> ""]

\* The timers RepeatedTimer r has created so far.
TimersOf(k, r) == {i \in 1..Len(k.timers) : k.timers[i].rt = r}

\* start() that measures the next interval from the current time.
start_schedule_from_now(k, r) ==
    IF k.rts[r].is_running THEN k
    ELSE LET nc == k.clock + k.rts[r].interval
         IN  [k EXCEPT !.rts[r].next_call = nc,
                       !.rts[r].timer = Len(k.timers) + 1,
                       !.timers = Append(@, [rt |-> r,
                                            n |-> Cardinality(TimersOf(k, r)) + 1,
                                            at |-> nc, st |-> "waiting",
                                            pc |-> "", snap |-> NoSnap,
                                            afterstop |-> FALSE,
                                            sched |-> FALSE,
                                            failed |-> FALSE])]

\* A start() without the test of is_running.
start_schedule_unguarded(k, r) ==
    LET nc == k.rts[r].next_call + k.rts[r].interval
    IN  [k EXCEPT !.rts[r].next_call = nc,
                  !.rts[r].timer = Len(k.timers) + 1,
                  !.timers = Append(@, [rt |-> r,
                                       n |-> Cardinality(TimersOf(k, r)) + 1,
                                       at |-> nc, st |-> "waiting",
                                       pc |-> "", snap |-> NoSnap,
                                       afterstop |-> FALSE,
                                       sched |-> FALSE,
                                       failed |-> FALSE])]

\* start(), lines 178-181: unless is_running, next_call moves on by one
\* interval and a Timer for that time is created, kept in _timer and
\* started.  A Timer whose time has passed already may fire at once.
start_schedule(k, r) ==
    IF k.rts[r].is_running THEN k
    ELSE LET nc == k.rts[r].next_call + k.rts[r].interval
         IN  [k EXCEPT !.rts[r].next_call = nc,
                       !.rts[r].timer = Len(k.timers) + 1,
                       !.timers = Append(@, [rt |-> r,
                                            n |-> Cardinality(TimersOf(k, r)) + 1,
                                            at |-> nc, st |-> "waiting",
                                            pc |-> "", snap |-> NoSnap,
                                            afterstop |-> FALSE,
                                            sched |-> FALSE,
                                            failed |-> FALSE])]

\* start(), line 182.
start_mark(k, r) == [k EXCEPT !.rts[r].is_running = TRUE]

\* RepeatedTimer.__init__, lines 163-170, as far as line 181 of the start()
\* it calls.
RepeatedTimer_init(k, interval) ==
    start_schedule(
        [k EXCEPT !.rts = Append(@, [timer |-> 0, interval |-> interval,
                                     is_running |-> FALSE,
                                     next_call |-> k.clock, t0 |-> k.clock,
                                     stopped |-> FALSE])],
        Len(k.rts) + 1)

\* stop(), line 185: Timer.cancel() keeps a Timer that has not fired yet
\* from firing and does nothing to one that has.
stop_cancel(k, r) ==
    [k EXCEPT !.timers[k.rts[r].timer].st =
                  IF @ = "waiting" THEN "cancelled" ELSE @]

\* stop(), line 186; stop() returns.
stop_mark(k, r) ==
    [k EXCEPT !.rts[r].is_running = FALSE, !.rts[r].stopped = TRUE]

\* stop(), lines 184-186.
stop(k, r) == stop_mark(stop_cancel(k, r), r)

\* A _run that leaves is_running as it is.
run_clear_skip(k, r) == k

\* _run, line 173: self.is_running = False
run_clear(k, r) == [k EXCEPT !.rts[r].is_running = FALSE]

\* _run, lines 173-174: is_running is cleared and start() schedules the next
\* firing and sets it again.
run_start(k, r) == start_mark(start_schedule(run_clear(k, r), r), r)

\* get_stats that hands out the live store.
get_stats_alias(p, w) == [alias |-> TRUE, data |-> p.timings]

\* get_stats that reads an entry while it is being updated: the new hit
\* count with the old duration.
get_stats_torn(p, w) ==
    [alias |-> FALSE,
     data |-> IF w = NoWrite THEN p.timings
              ELSE Credit(p.timings, w.fn, w.line, 0)]

\* get_stats: a Snapshot, a copy of the entries as they are; an update in
\* progress is not in it.
get_stats(p, w) == [alias |-> FALSE, data |-> p.timings]

\* The snapshot, with a note of the store and of the update in progress at
\* the time it is taken.
Taken(s) ==
    [alias |-> s.alias, data |-> s.data, pre |-> timings, w |-> kp.writing]

\* What a reader of the snapshot finds in it.
Read(s) == IF s.alias THEN timings ELSE s.data

\* dump_stats(outfile): the snapshot is delivered to the sink; `by' is the
\* RepeatedTimer the dump was made for, 0 for main's final export.
dump_stats(k, s, by) ==
    [k EXCEPT !.sink = Append(@, [by |-> by, data |-> Read(s), pre |-> s.pre,
                                  w |-> s.w, after |-> k.finals])]

\* except (KeyboardInterrupt, SystemExit): pass
Swallowed(e) == e \in {"KeyboardInterrupt", "SystemExit"}

\* A main whose cleanup is not in a finally block.
AfterTarget_nofinally(e) ==
    IF e = "normal" \/ Swallowed(e) THEN "588" ELSE "raised"

\* try ... finally: whatever the target's outcome, control reaches line 588.
AfterTarget(e) == "588"

\* What main does after the finally block: return, or let the exception go on.
AfterFinally(e) == IF e = "normal" \/ Swallowed(e) THEN "done" ELSE "raised"

profiler == <<enable_count, trace, prev_trace, tool, last_time, timings,
              functions, wrappers, log>>

kprest == <<wrap_trace, usertrace, stack, exc, ncalls, allclean, drv, thr,
            job, sh, expected>>

\* The target, or the execution beside the dumper, is running.
Executing == kp.pc \in {"556", "beside"}

\* A main that hands the option's value to RepeatedTimer as it is.
timer_interval_raw(oi) == oi

\* The interval main gives the RepeatedTimer: max(options.output_interval, 1).
timer_interval(oi) == Max(oi, 1)

\* -i / --output-interval as main's parser resolves it: the value given
\* (type=int), 1 for the bare option (const=1, nargs='?'), the default
\* when the option is absent.
output_interval(o) == IF o.flag = "bare" THEN 1 ELSE o.n

\* The command lines and defaults considered.
OutputOptions == [flag : {"absent", "bare", "value"}, n : (0 - MaxOption)..MaxOption]

InitKern ==
    /\ Constructed("None")
    /\ ~wrap_trace
    /\ drv = DrvOff
    /\ thr = ThrOff
    /\ job = JobOff
    /\ sh = ShOff
    /\ \E oi \in 0..1 : kp = KpNew(oi)

\* Lines 550-552 and 554-555: if options.output_interval:
\*     rt = RepeatedTimer(max(options.output_interval, 1), ...)
MainTimer ==
    /\ kp.pc \in {"550", "554"}
    /\ kp' = IF kp.oi # 0
             THEN [start_mark(RepeatedTimer_init(kp, Seconds(timer_interval(kp.oi))),
                              Len(kp.rts) + 1)
                      EXCEPT !.pc = IF kp.pc = "550" THEN "554" ELSE "556"]
             ELSE [kp EXCEPT !.pc = IF kp.pc = "550" THEN "554" ELSE "556"]
    /\ UNCHANGED <<profiler, kprest, now, last>>

\* The target script decorates f with @profile.
TargetDecorate ==
    /\ Executing
    /\ wrappers = <<>>
    /\ LET r == ContextualProfile_call(Self, Raw("f"))
       IN  /\ Install(r.p)
           /\ last' = Record("wrap", r.p, Raw("f"), r.ret)
    /\ UNCHANGED <<kp, kprest, now>>

\* The target calls f: the wrapper acquires, f's frame starts and reaches
\* its first line.
TargetEnter ==
    /\ Executing
    /\ kp.tpc = 0
    /\ wrappers # <<>>
    /\ kp.runs < MaxRuns
    /\ LET steps == <<Step("acquire", "f", 0, 1), Step("call", "f", 0, 1),
                      Step("line", "f", 18, 1)>>
           p == RunSteps(Self, steps, now)
       IN  /\ Install(p)
           /\ last' = Record("enter", p, None, None)
    /\ now' = now + 2
    /\ kp' = [kp EXCEPT !.tpc = 1, !.runs = @ + 1]
    /\ UNCHANGED kprest

\* The next event of f's frame is reported and the Event Router starts to
\* update the entry of the line that was running.
RouterBegin ==
    /\ kp.tpc \in {1, 2}
    /\ kp.writing = NoWrite
    /\ \E o \in Timer(last_time, 1) :
        kp' = [kp EXCEPT !.writing = [fn |-> o.fn, line |-> o.line,
                                      dt |-> now + 1 - o.t]]
    /\ UNCHANGED <<profiler, kprest, now, last>>

\* The update is done: line 19 runs, or f returns and the wrapper releases.
RouterEnd ==
    /\ kp.writing # NoWrite
    /\ LET steps == IF kp.tpc = 1
                    THEN <<Step("line", "f", 19, 1)>>
                    ELSE <<Step("return", "f", 19, 1),
                           Step("release", "f", 0, 1)>>
           p == RunSteps(Self, steps, now)
       IN  /\ Install(p)
           /\ last' = Record("event", p, None, None)
    /\ now' = now + 1
    /\ kp' = [kp EXCEPT !.tpc = IF @ = 1 THEN 2 ELSE 0, !.writing = NoWrite]
    /\ UNCHANGED kprest

\* The target ends: it completes, or an exception leaves it.
TargetExit ==
    /\ kp.pc = "556"
    /\ kp.tpc = 0
    /\ \E e \in {"normal", "KeyboardInterrupt", "SystemExit", "Exception"} :
        kp' = [kp EXCEPT !.outcome = e, !.pc = AfterTarget(e)]
    /\ UNCHANGED <<profiler, kprest, now, last>>

\* Lines 588-589: if options.output_interval: rt.stop(); rt is the
\* RepeatedTimer made last.
MainStop ==
    /\ kp.pc = "588"
    /\ kp' = IF kp.oi # 0
             THEN [stop(kp, Len(kp.rts)) EXCEPT !.pc = "590"]
             ELSE [kp EXCEPT !.pc = "590"]
    /\ UNCHANGED <<profiler, kprest, now, last>>

\* Line 590: prof.dump_stats(options.outfile), the final export; then main
\* returns or the target's exception goes on to the caller.
MainExport ==
    /\ kp.pc = "590"
    /\ LET s == Taken(get_stats(Self, kp.writing))
       IN  kp' = [dump_stats(kp, s, 0) EXCEPT !.finals = @ + 1,
                                              !.pc = AfterFinally(kp.outcome)]
    /\ UNCHANGED <<profiler, kprest, now, last>>

\* A Timer's time has come (or has passed) and it was not cancelled: its
\* thread runs _run, which schedules the next firing and dumps.
TimerRun ==
    \E i \in 1..Len(kp.timers) :
        LET r == kp.timers[i].rt
            s == Taken(get_stats(Self, kp.writing))
            k == [kp EXCEPT !.timers[i].st = "done", !.timers[i].snap = s,
                            !.timers[i].sched = TRUE,
                            !.timers[i].afterstop = kp.rts[r].stopped]
        IN  /\ kp.timers[i].st = "waiting"
            /\ kp.clock >= kp.timers[i].at
            /\ Cardinality(TimersOf(kp, r)) < MaxFire
            /\ kp' = dump_stats(run_start(k, r), s, r)
            /\ UNCHANGED <<profiler, kprest, now, last>>

\* A Timer's time has come (or has passed) and it was not cancelled: its
\* thread calls _run.
Fire ==
    \E i \in 1..Len(kp.timers) :
        /\ kp.timers[i].st = "waiting"
        /\ kp.clock >= kp.timers[i].at
        /\ kp' = [kp EXCEPT !.timers[i].st = "run", !.timers[i].pc = "173",
                            !.timers[i].afterstop =
                                kp.rts[kp.timers[i].rt].stopped]
        /\ UNCHANGED <<profiler, kprest, now, last>>

\* _run, line 173: self.is_running = False
Run173 ==
    \E i \in 1..Len(kp.timers) :
        /\ kp.timers[i].pc = "173"
        /\ kp' = [run_clear(kp, kp.timers[i].rt) EXCEPT !.timers[i].pc = "178"]
        /\ UNCHANGED <<profiler, kprest, now, last>>

\* _run, line 174: self.start(), as far as line 181.
Run178 ==
    \E i \in 1..Len(kp.timers) :
        LET r == kp.timers[i].rt
        IN  /\ kp.timers[i].pc = "178"
            /\ kp.rts[r].is_running \/ Cardinality(TimersOf(kp, r)) < MaxFire
            /\ kp' = [start_schedule(kp, r) EXCEPT
                         !.timers[i].pc = IF kp.rts[r].is_running THEN "175"
                                          ELSE "182"]
            /\ UNCHANGED <<profiler, kprest, now, last>>

\* Line 182 of the start() that _run called.
Run182 ==
    \E i \in 1..Len(kp.timers) :
        /\ kp.timers[i].pc = "182"
        /\ kp' = [start_mark(kp, kp.timers[i].rt) EXCEPT !.timers[i].pc = "175"]
        /\ UNCHANGED <<profiler, kprest, now, last>>

\* _run, line 175: self.dump_func(self.outfile) is called; it takes its
\* snapshot and goes on to write it, or it raises and the thread ends.
Run175 ==
    \E i \in 1..Len(kp.timers) : \E ok \in BOOLEAN :
        LET r == kp.timers[i].rt
            s == Taken(get_stats(Self, kp.writing))
            next == \E j \in TimersOf(kp, r) :
                        /\ kp.timers[j].n > kp.timers[i].n
                        /\ kp.timers[j].st \in {"waiting", "run", "done"}
        IN  /\ kp.timers[i].pc = "175"
            /\ kp' = [kp EXCEPT !.timers[i].snap = s,
                                !.timers[i].sched = next,
                                !.timers[i].failed = ~ok,
                                !.timers[i].pc = IF ok THEN "dump" ELSE "",
                                !.timers[i].st = IF ok THEN "run" ELSE "done"]
            /\ UNCHANGED <<profiler, kprest, now, last>>

\* The dump in flight completes: the snapshot reaches the sink.
DumpDone ==
    \E i \in 1..Len(kp.timers) :
        /\ kp.timers[i].pc = "dump"
        /\ kp' = [dump_stats(kp, kp.timers[i].snap, kp.timers[i].rt) EXCEPT
                     !.timers[i].pc = "", !.timers[i].st = "done"]
        /\ UNCHANGED <<profiler, kprest, now, last>>

\* A timer is due and has not fired, or a thread is within a method.
Behind(k) ==
    \/ \E i \in 1..Len(k.timers) :
        \/ k.timers[i].st = "waiting" /\ k.clock >= k.timers[i].at
        \/ k.timers[i].st = "run"
    \/ k.pc \in {"rt182", "stop186"}

\* Half a second passes.
Tick ==
    /\ kp.clock < MaxClock
    /\ kp' = [kp EXCEPT !.clock = @ + 1]
    /\ UNCHANGED <<profiler, kprest, now, last>>

\* Half a second passes in a run where every timer fires when it is due and
\* no thread is held up within a method or a dump.
TickOnTime ==
    /\ kp.clock < MaxHalves
    /\ ~Behind(kp)
    /\ kp' = [kp EXCEPT !.clock = @ + 1]
    /\ UNCHANGED <<profiler, kprest, now, last>>

NextKern ==
    \/ MainTimer
    \/ TargetDecorate
    \/ TargetEnter
    \/ RouterBegin
    \/ RouterEnd
    \/ TargetExit
    \/ MainStop
    \/ MainExport
    \/ TimerRun
    \/ Tick

SpecKern == InitKern /\ [][NextKern]_vars


\* main for every value of --output-interval, with a target that does not
\* use the profiler.
InitInterval ==
    /\ Constructed("None")
    /\ ~wrap_trace
    /\ drv = DrvOff
    /\ thr = ThrOff
    /\ job = JobOff
    /\ sh = ShOff
    /\ \E o \in OutputOptions : kp = KpNew(output_interval(o))

NextInterval ==
    \/ MainTimer
    \/ TargetExit
    \/ MainStop
    \/ MainExport
    \/ TimerRun
    \/ Tick

SpecInterval == InitInterval /\ [][NextInterval]_vars

\* rt = RepeatedTimer(1, prof.dump_stats, outfile) is about to be made beside
\* an execution.
InitDumper ==
    /\ Constructed("None")
    /\ ~wrap_trace
    /\ drv = DrvOff
    /\ thr = ThrOff
    /\ job = JobOff
    /\ sh = ShOff
    /\ kp = [KpNew(1) EXCEPT !.pc = "rt"]

\* RepeatedTimer(1, ...), as far as line 181 of the start() it calls.
DumperNew ==
    /\ kp.pc = "rt"
    /\ kp' = [RepeatedTimer_init(kp, Seconds(1)) EXCEPT !.pc = "rt182"]
    /\ UNCHANGED <<profiler, kprest, now, last>>

\* Line 182 of the start() the constructor called; the constructor returns
\* and the execution begins.
DumperNewMark ==
    /\ kp.pc = "rt182"
    /\ kp' = [start_mark(kp, 1) EXCEPT !.pc = "beside"]
    /\ UNCHANGED <<profiler, kprest, now, last>>

\* The execution is over: rt.stop(), line 185.
DumperStop ==
    /\ kp.pc = "beside"
    /\ kp.tpc = 0
    /\ kp' = [stop_cancel(kp, 1) EXCEPT !.pc = "stop186"]
    /\ UNCHANGED <<profiler, kprest, now, last>>

\* Line 186 of stop(); stop() returns.
DumperStopMark ==
    /\ kp.pc = "stop186"
    /\ kp' = [stop_mark(kp, 1) EXCEPT !.pc = "stopped"]
    /\ UNCHANGED <<profiler, kprest, now, last>>

NextDumper ==
    \/ DumperNew
    \/ DumperNewMark
    \/ TargetDecorate
    \/ TargetEnter
    \/ RouterBegin
    \/ RouterEnd
    \/ DumperStop
    \/ DumperStopMark
    \/ Fire
    \/ Run173
    \/ Run178
    \/ Run182
    \/ Run175
    \/ DumpDone
    \/ Tick

SpecDumper == InitDumper /\ [][NextDumper]_vars

\* The same use of one RepeatedTimer in runs where every timer fires on time.
NextPunctual ==
    \/ DumperNew
    \/ DumperNewMark
    \/ TargetDecorate
    \/ TargetEnter
    \/ RouterBegin
    \/ RouterEnd
    \/ DumperStop
    \/ DumperStopMark
    \/ Fire
    \/ Run173
    \/ Run178
    \/ Run182
    \/ Run175
    \/ DumpDone
    \/ TickOnTime

SpecPunctual == InitDumper /\ [][NextPunctual]_vars

\* ------------------------------------------- pre_parse_single_arg_directive
\* list.index(x): the position of the first x, counted from 1; 0 stands for
\* the ValueError of a list that has no x.
index(s, x) ==
    IF \E i \in 1..Len(s) : s[i] = x
    THEN CHOOSE i \in 1..Len(s) : s[i] = x /\ \A j \in 1..(i - 1) : s[j] # x
    ELSE 0

\* args[a:b] for positions counted from 1, both ends taken.
Slice(s, a, b) == SubSeq(s, a, b)

\* return pre, arg, post
Returns(pre, arg, post) == [exc |-> "", pre |-> pre, arg |-> arg, post |-> post]

\* raise exc
Raises(e) == [exc |-> e, pre |-> << >>, arg |-> "None", post |-> << >>]

\* Lines 320-328 with the last occurrence of the flag taken.
directive_flag_last(args, flag) ==
    LET i_flag == IF index(args, flag) = 0 THEN 0
                  ELSE CHOOSE i \in 1..Len(args) :
                           args[i] = flag /\ \A j \in (i + 1)..Len(args) : args[j] # flag
    IN  IF i_flag = 0 THEN Returns(args, "None", << >>)
        ELSE IF i_flag = Len(args) THEN Raises("ValueError")
        ELSE Returns(Slice(args, 1, i_flag - 1), args[i_flag + 1],
                     Slice(args, i_flag + 2, Len(args)))

\* Lines 320-328 without the test for a flag in the last place.
directive_flag_lenient(args, flag) ==
    LET i_flag == index(args, flag)
    IN  IF i_flag = 0 \/ i_flag = Len(args) THEN Returns(args, "None", << >>)
        ELSE Returns(Slice(args, 1, i_flag - 1), args[i_flag + 1],
                     Slice(args, i_flag + 2, Len(args)))

\* Lines 320-328: no separator in args; the first flag and its value.
directive_flag(args, flag) ==
    LET i_flag == index(args, flag)
    IN  IF i_flag = 0 THEN Returns(args, "None", << >>)
        ELSE IF i_flag = Len(args) THEN Raises("ValueError")
        ELSE Returns(Slice(args, 1, i_flag - 1), args[i_flag + 1],
                     Slice(args, i_flag + 2, Len(args)))

\* Lines 314-319 with the separator left out of what is returned.
directive_sep_dropped(r, sep, post) ==
    IF r.exc # "" THEN r
    ELSE IF r.arg = "None"
    THEN IF r.post # << >> THEN Raises("AssertionError")
         ELSE Returns(r.pre, r.arg, post)
    ELSE Returns(r.pre, r.arg, r.post \o post)

\* Lines 314-319: r is what the call on the part before the separator gave
\* (an exception of that call goes on to the caller), post the part after.
directive_sep(r, sep, post) ==
    IF r.exc # "" THEN r
    ELSE IF r.arg = "None"
    THEN IF r.post # << >> THEN Raises("AssertionError")
         ELSE Returns(r.pre \o <<sep>>, r.arg, post)
    ELSE Returns(r.pre, r.arg, r.post \o <<sep>> \o post)

\* pre_parse_single_arg_directive(args, flag, sep='--'); the inner call
\* takes the default separator.
RECURSIVE pre_parse_single_arg_directive(_, _, _)
pre_parse_single_arg_directive(args, flag, sep) ==
    LET i_sep == index(args, sep)
    IN  IF i_sep = 0 THEN directive_flag(args, flag)
        ELSE directive_sep(
                 pre_parse_single_arg_directive(Slice(args, 1, i_sep - 1),
                                                flag, "--"),
                 sep, Slice(args, i_sep + 1, Len(args)))

\* The words of a command line: the flag, the separator, two others.
Words == {"-m", "--", "x", "y"}

\* The argument lists considered.
ArgLists == UNION {[1..n -> Words] : n \in 0..MaxArgs}

NoResult == [exc |-> "pending", pre |-> << >>, arg |-> "None", post |-> << >>]

\* main is called with args; `given' keeps what the list held at the call.
InitParse ==
    /\ Constructed("None")
    /\ ~wrap_trace
    /\ drv = DrvOff
    /\ thr = ThrOff
    /\ job = JobOff
    /\ sh = ShOff
    /\ \E a \in ArgLists :
           kp = [pc |-> "348", args |-> a, given |-> a, res |-> NoResult]

\* main, line 350: args, module, post_args =
\*     pre_parse_single_arg_directive(args, '-m'); the function works on
\* list(args), a copy.
PreParse ==
    /\ kp.pc = "348"
    /\ LET r == pre_parse_single_arg_directive(kp.args, "-m", "--")
       IN  kp' = [kp EXCEPT !.res = r,
                            !.pc = IF r.exc = "" THEN "352" ELSE "raised"]
    /\ UNCHANGED <<profiler, kprest, now, last>>

NextParse == PreParse

SpecParse == InitParse /\ [][NextParse]_vars

\* ------------------------------------------- the global `profile' object
\* The functions the script defines.
ScriptFuncs == {"func1", "func2", "func3", "func4"}

\* The global profiler before its first use; env: profiling was asked for
\* from outside (LINE_PROFILE, --line-profile).
GlobalNew(env) ==
    [pc |-> "script", enabled |-> "None", env |-> env,
     bound |-> [fn \in ScriptFuncs |-> "undefined"],
     at |-> [fn \in ScriptFuncs |-> "None"],
     functions |-> {}, hits |-> [fn \in ScriptFuncs |-> 0],
     called |-> {}]

\* profile.enable()
GlobalProfiler_enable(g) == [g EXCEPT !.enabled = "True"]

\* profile.disable()
GlobalProfiler_disable(g) == [g EXCEPT !.enabled = "False"]

\* The first use decides by the environment whether the profiler is on.
implicit_setup(g) ==
    IF g.enabled # "None" THEN g
    ELSE IF g.env THEN GlobalProfiler_enable(g) ELSE GlobalProfiler_disable(g)

\* A global profiler that wraps whatever it is given.
GlobalProfiler_call_always(g, fn) ==
    [implicit_setup(g) EXCEPT !.bound[fn] = "wrapped",
                              !.functions = @ \cup {fn}]

\* profile(func): the function is wrapped and registered when the profiler
\* is enabled, and returned as it is when it is not.
GlobalProfiler_call(g, fn) ==
    LET h == implicit_setup(g)
    IN  IF h.enabled = "True"
        THEN [h EXCEPT !.bound[fn] = "wrapped", !.functions = @ \cup {fn}]
        ELSE [h EXCEPT !.bound[fn] = "raw"]

\* The script calls what the name fn is bound to.
Called(g, fn) ==
    IF g.bound[fn] = "wrapped" THEN [g EXCEPT !.hits[fn] = 1] ELSE g

\* The functions the written results name ("Function: ...").
Results(g) == g.functions

InitGlobal ==
    /\ Constructed("None")
    /\ ~wrap_trace
    /\ drv = DrvOff
    /\ thr = ThrOff
    /\ job = JobOff
    /\ sh = ShOff
    /\ \E env \in BOOLEAN : kp = GlobalNew(env)

\* @profile def fn(a): ...; `at' keeps the state of the profiler at that
\* moment.
ScriptDecorate ==
    \E fn \in ScriptFuncs :
        /\ kp.bound[fn] = "undefined"
        /\ LET g == GlobalProfiler_call(kp, fn)
           IN  kp' = [g EXCEPT !.at[fn] = g.enabled]
        /\ UNCHANGED <<profiler, kprest, now, last>>

ScriptEnable ==
    /\ kp.enabled # "True"
    /\ kp' = GlobalProfiler_enable(kp)
    /\ UNCHANGED <<profiler, kprest, now, last>>

ScriptDisable ==
    /\ kp.enabled # "False"
    /\ kp' = GlobalProfiler_disable(kp)
    /\ UNCHANGED <<profiler, kprest, now, last>>

\* fn(1); `called' keeps the functions called while the profiler is enabled.
ScriptCall ==
    \E fn \in ScriptFuncs :
        /\ kp.bound[fn] # "undefined"
        /\ kp.enabled = "True"
        /\ fn \notin kp.called
        /\ kp' = [Called(kp, fn) EXCEPT !.called = @ \cup {fn}]
        /\ UNCHANGED <<profiler, kprest, now, last>>

NextGlobal ==
    \/ ScriptDecorate
    \/ ScriptEnable
    \/ ScriptDisable
    \/ ScriptCall

SpecGlobal == InitGlobal /\ [][NextGlobal]_vars

\* ------------------------------------------------------- main's own frame
\* _restore_list(lst), up to the yield: old = lst.copy()
restore_list_enter(heap, lst) == heap[lst]

\* _restore_list(lst), after the yield: lst[:] = old. The generator has no
\* try/finally: when the body raises, the exception is thrown in at the
\* yield and this line is not reached.
restore_list_exit(heap, lst, old, raised) ==
    IF raised THEN heap ELSE [heap EXCEPT ![lst] = old]

\* The global profiler's _kernprof_overwrite(prof): kernprof's profiler (or
\* None) takes the place of the global profiler's own; the global profiler
\* registers no output of its own.
kernprof_overwrite(g, prof) == [g EXCEPT !.profile = prof]

\* The list objects: 1 is the list sys.argv names when kernprof is
\* imported, 2 is sys.path, 3 is the list main makes at line 503.
ArgvList == 1
PathList == 2
NewList == 3

\* The command lines considered: kernprof [-m] script [a].
MainInputs ==
    [module : BOOLEAN, setup : {"", "found", "missing"},
     script : {"found", "missing"}, args : {<< >>, <<"a">>}]

MainNew(in) ==
    [pc |-> "call", in |-> in,
     argv |-> ArgvList,
     heap |-> <<<<"kernprof">> \o (IF in.module THEN <<"-m">> ELSE << >>)
                  \o <<in.script>> \o in.args,
                <<"site">>, << >>>>,
     old_argv |-> << >>, old_path |-> << >>,
     argv0 |-> << >>, path0 |-> << >>,
     g |-> [profile |-> "None", output |-> FALSE],
     installed |-> FALSE, outcome |-> "", exc |-> FALSE]

InitMain ==
    /\ Constructed("None")
    /\ ~wrap_trace
    /\ drv = DrvOff
    /\ thr = ThrOff
    /\ job = JobOff
    /\ sh = ShOff
    /\ \E in \in MainInputs : kp = MainNew(in)

\* main is called: the two _restore_list decorators copy the lists they
\* were given when main was defined.
MainCall ==
    /\ kp.pc = "call"
    /\ kp' = [kp EXCEPT !.pc = "503",
                        !.old_argv = restore_list_enter(kp.heap, ArgvList),
                        !.old_path = restore_list_enter(kp.heap, PathList),
                        !.argv0 = kp.heap[kp.argv],
                        !.path0 = kp.heap[PathList]]
    /\ UNCHANGED <<profiler, kprest, now, last>>

\* Lines 503-509: sys.argv = [options.script] + options.args, a new list;
\* if module: sys.path.insert(0, cwd).
MainArgv ==
    /\ kp.pc = "503"
    /\ kp' = [kp EXCEPT !.pc = "509",
                        !.argv = NewList,
                        !.heap[NewList] = <<kp.in.script>> \o kp.in.args,
                        !.heap[PathList] = IF kp.in.module
                                           THEN <<"cwd">> \o @ ELSE @]
    /\ UNCHANGED <<profiler, kprest, now, last>>

\* Lines 510-519: if options.setup: find_script(setup) raises when there is
\* no such file; else sys.path.insert(0, dirname(setup_file)).
MainSetup ==
    /\ kp.pc = "509"
    /\ kp' = IF kp.in.setup = "" THEN [kp EXCEPT !.pc = "521"]
             ELSE IF kp.in.setup = "missing"
             THEN [kp EXCEPT !.pc = "unwind", !.exc = TRUE]
             ELSE [kp EXCEPT !.pc = "521",
                             !.heap[PathList] = <<"setupdir">> \o @]
    /\ UNCHANGED <<profiler, kprest, now, last>>

\* Lines 521-537: prof is made and install_profiler(prof) installs it.
MainInstall ==
    /\ kp.pc = "521"
    /\ kp' = [kp EXCEPT !.pc = "539", !.installed = TRUE,
                        !.g = kernprof_overwrite(@, "prof")]
    /\ UNCHANGED <<profiler, kprest, now, last>>

\* Lines 539-548: the script is located: find_module_script / find_script
\* raise (SystemExit or FileNotFoundError) when it is not found; for a
\* script its directory is put on sys.path.
MainFind ==
    /\ kp.pc = "539"
    /\ kp' = IF kp.in.script = "missing"
             THEN [kp EXCEPT !.pc = "unwind", !.exc = TRUE]
             ELSE [kp EXCEPT !.pc = "557",
                             !.heap[PathList] = IF kp.in.module THEN @
                                                ELSE <<"scriptdir">> \o @]
    /\ UNCHANGED <<profiler, kprest, now, last>>

\* Lines 556-586: the target runs inside try/try; KeyboardInterrupt and
\* SystemExit are swallowed; control reaches the finally block.
MainTarget ==
    /\ kp.pc = "557"
    /\ \E e \in {"normal", "KeyboardInterrupt", "SystemExit", "Exception"} :
           kp' = [kp EXCEPT !.pc = "590", !.outcome = e]
    /\ UNCHANGED <<profiler, kprest, now, last>>

\* Line 590, in the finally block: prof.dump_stats(options.outfile); when
\* it raises, the rest of the block is not run.
MainDump ==
    /\ kp.pc = "590"
    /\ \E ok \in BOOLEAN :
           kp' = IF ok THEN [kp EXCEPT !.pc = "609"]
                 ELSE [kp EXCEPT !.pc = "unwind", !.exc = TRUE]
    /\ UNCHANGED <<profiler, kprest, now, last>>

\* Line 609: install_profiler(None); then main returns, or the target's
\* exception goes on.
MainRestore ==
    /\ kp.pc = "609"
    /\ kp' = [kp EXCEPT !.pc = "unwind",
                        !.g = kernprof_overwrite(@, "None"),
                        !.exc = (AfterFinally(kp.outcome) = "raised")]
    /\ UNCHANGED <<profiler, kprest, now, last>>

\* main's frame is left: the decorators' generators go on after their
\* yield, sys.path's first, then sys.argv's.
MainUnwind ==
    /\ kp.pc = "unwind"
    /\ LET h1 == restore_list_exit(kp.heap, PathList, kp.old_path, kp.exc)
           h2 == restore_list_exit(h1, ArgvList, kp.old_argv, kp.exc)
       IN  kp' = [kp EXCEPT !.pc = IF kp.exc THEN "raised" ELSE "returned",
                            !.heap = h2]
    /\ UNCHANGED <<profiler, kprest, now, last>>

NextMain ==
    \/ MainCall
    \/ MainArgv
    \/ MainSetup
    \/ MainInstall
    \/ MainFind
    \/ MainTarget
    \/ MainDump
    \/ MainRestore
    \/ MainUnwind

SpecMain == InitMain /\ [][NextMain]_vars

\* ------------------------------------------------ an enable() that raises
\* The underlying enable() where the runtime's profiling tool may be held
\* by another profiler: it then raises and changes nothing.
enable_or_raise(p) ==
    IF p.tool = "other"
    THEN [p |-> [p EXCEPT !.calls = Append(@, "enable")], raised |-> TRUE]
    ELSE [p |-> enable(p), raised |-> FALSE]

\* An enable_by_count that counts the acquire before it enables.
enable_by_count_counted_first(p) ==
    LET q == [p EXCEPT !.enable_count = @ + 1]
    IN  IF p.enable_count = 0
        THEN LET r == enable_or_raise(q)
             IN  [p |-> r.p, raised |-> r.raised]
        ELSE [p |-> q, raised |-> FALSE]

\* kernprof.py:133-138 with an enable() that may raise: the exception
\* leaves enable_by_count at line 137, before line 138 counts the acquire.
enable_by_count_or_raise(p) ==
    IF p.enable_count = 0
    THEN LET r == enable_or_raise(p)
         IN  IF r.raised THEN r
             ELSE [p |-> [r.p EXCEPT !.enable_count = @ + 1],
                   raised |-> FALSE]
    ELSE [p |-> [p EXCEPT !.enable_count = @ + 1], raised |-> FALSE]

InitRaise ==
    /\ \E h \in Hooks : Constructed(h)
    /\ drv = DrvOff
    /\ thr = ThrOff
    /\ job = JobOff
    /\ sh = ShOff
    /\ kp = KpOff

\* Another profiler takes the runtime's tool slot, or gives it back.
OtherTool ==
    /\ tool \in {"None", "other"}
    /\ tool' = IF tool = "None" THEN "other" ELSE "None"
    /\ last' = Record("other_tool", Self, None, None)
    /\ UNCHANGED <<enable_count, trace, prev_trace, wrap_trace, usertrace,
                   last_time, timings, functions, wrappers, now, log, stack,
                   exc, ncalls, expected, allclean, elsewhere>>

\* profile.enable_by_count(); the caller catches what it raises.
AcquireOrRaise ==
    /\ enable_count < MaxAcquires
    /\ LET r == enable_by_count_or_raise(Self)
       IN  /\ Install(r.p)
           /\ last' = Record(IF r.raised THEN "enable_by_count_raised"
                              ELSE "enable_by_count", r.p, None, None)
    /\ UNCHANGED <<wrap_trace, usertrace, now, stack, exc, ncalls, expected,
                   allclean, elsewhere>>

\* profile.disable_by_count()
ReleaseAfter ==
    /\ LET p == disable_by_count(Self)
       IN  /\ Install(p)
           /\ last' = Record("disable_by_count", p, None, None)
    /\ UNCHANGED <<wrap_trace, usertrace, now, stack, exc, ncalls, expected,
                   allclean, elsewhere>>

NextRaise ==
    \/ OtherTool
    \/ SetTrace
    \/ AcquireOrRaise
    \/ ReleaseAfter

SpecRaise == InitRaise /\ [][NextRaise]_vars

\* ----------------------------------------------------------------- claims
Installs(did) == CountOf(did, "enable")

Uninstalls(did) == CountOf(did, "disable")

Acquired == last.op \in AcquireOps

Released == last.op \in ReleaseOps

\* C1: in n calls of enable_by_count followed by n calls of disable_by_count
\* the counter is the number of acquires not yet released, so it is 0 at
\* the end; enable() has been called exactly once as soon as one acquire is
\* made and never again; disable() is called exactly once, by the last
\* release, when n > 0.
C1_NestedBalanced ==
    /\ enable_count = drv.acq - drv.rel
    /\ drv.rel = drv.n => enable_count = 0
    /\ drv.inst = IF drv.acq > 0 THEN 1 ELSE 0
    /\ drv.uninst = IF drv.n > 0 /\ drv.rel = drv.n THEN 1 ELSE 0
    /\ (trace = "profiler") <=> (drv.acq > 0 /\ drv.rel < drv.n)

\* Three acquires and three releases have been made.
C1_Witness ==
    /\ drv.n >= 3
    /\ drv.acq = drv.n
    /\ drv.rel = drv.n
    /\ enable_count = 0
    /\ drv.inst = 1
    /\ drv.uninst = 1

\* C2: the trace hook is installed (the profiler is the active trace
\* callback) exactly while enable_count > 0, and an operation installs it
\* only when it is an acquire that takes the counter from 0 to 1.
C2_HookIffEnabled ==
    /\ (trace = "profiler") <=> (enable_count > 0)
    /\ Installs(last.did) > 0 =>
        /\ Acquired
        /\ Installs(last.did) = 1
        /\ last.pre.enable_count = 0
        /\ enable_count = 1
    /\ Acquired /\ last.pre.enable_count = 0 => Installs(last.did) = 1

\* An acquire at count 1: no install, and the profiler stays the hook.
C2_Witness ==
    /\ Acquired
    /\ last.pre.enable_count = 1
    /\ enable_count = 2
    /\ trace = "profiler"
    /\ last.did = <<>>

\* C3: leaving a with-block releases exactly once: the counter goes down by
\* one (or stays 0), so a block whose body left the counter where the entry
\* put it ends with the counter at its value before entry, whether the block
\* ends normally or by an exception; the exception keeps propagating.
C3_ScopedRelease ==
    last.op = "exit" =>
        /\ enable_count = IF last.pre.enable_count > 0
                          THEN last.pre.enable_count - 1
                          ELSE 0
        /\ last.pre.enable_count = last.arg.pre + 1 =>
             enable_count = last.arg.pre
        /\ exc = last.exc

\* A with-block at depth 1 left by an exception: the counter is 0 again and
\* the exception is still propagating.
C3_Witness ==
    /\ last.op = "exit"
    /\ last.exc
    /\ exc
    /\ last.arg.pre = 0
    /\ last.pre.enable_count = 1
    /\ enable_count = 0
    /\ stack = <<>>

\* C4: a release at count 0 changes nothing (no underlying disable, no
\* error, the counter stays 0), and the counter is never negative.
C4_ReleaseAtZero ==
    /\ enable_count >= 0
    /\ Released /\ last.pre.enable_count = 0 =>
        /\ enable_count = 0
        /\ last.did = <<>>
        /\ trace = last.pre.trace
        /\ prev_trace = last.pre.prev_trace
        /\ last_time = last.pre.last_time
        /\ timings = last.pre.timings
        /\ exc = last.exc

C4_Witness ==
    /\ last.op = "disable_by_count"
    /\ last.pre.enable_count = 0
    /\ enable_count = 0

\* C5: a release that takes the counter from 1 to 0 empties last_time and
\* credits nothing (every Line Entry is as it was before the release); a
\* release that leaves the counter above 0 leaves last_time as it was.
C5_ReleaseAbandonsTimers ==
    /\ Released /\ last.pre.enable_count = 1 =>
        /\ enable_count = 0
        /\ last_time = {}
        /\ timings = last.pre.timings
    /\ Released /\ last.pre.enable_count > 1 =>
        /\ last_time = last.pre.last_time
        /\ timings = last.pre.timings

\* A release from 1 to 0 while a call is in flight with a line being timed.
C5_Witness ==
    /\ Released
    /\ last.pre.enable_count = 1
    /\ \E x \in last.pre.last_time : x.line # 0
    /\ last_time = {}
    /\ stack # <<>>

\* No thread is inside enable_by_count or disable_by_count.
Quiescent == \A x \in Threads : thr.t[x].at = "idle"

\* C6: with several threads calling the guard, whenever no call is in
\* progress the counter is the number of acquires minus the number of
\* releases; the underlying enable() and disable() calls alternate, the
\* first being an enable(): none is made twice in a row.
C6_AtomicCounter ==
    /\ Quiescent => enable_count = thr.acq - thr.rel
    /\ \A i \in 1..Len(thr.calls) :
        thr.calls[i] = IF i % 2 = 1 THEN "enable" ELSE "disable"

\* C7: whenever the profiler is not enabled, the active trace hook is the
\* hook the program had installed before the profiler was enabled, None or
\* H, whatever wrap_trace is; in particular after each profiled call.
C7_HookRestored ==
    /\ enable_count = 0 => trace = usertrace
    /\ last.op = "wrapper_exit" /\ last.arg.pre = 0 /\ enable_count = 0 =>
         trace = usertrace

\* A profiled call has ended with H installed before it: H is active again.
C7_Witness ==
    /\ last.op = "wrapper_exit"
    /\ last.pre.enable_count = 1
    /\ last.pre.trace = "profiler"
    /\ enable_count = 0
    /\ usertrace = "H"
    /\ trace = "H"

\* The entries of the log that `who' wrote.
By(who) == {i \in 1..Len(log) : log[i].who = who}

\* No activation is in flight that the engine has seen from its call on.
Settled ==
    \A i \in 1..Len(stack) :
        ~(stack[i].kind = "act" /\ stack[i].st = "run"
          /\ stack[i].track = "full")

ExpectedOf(fn) == IF fn \in DOMAIN expected THEN expected[fn] ELSE << >>

\* C8: with wrap_trace and H installed before enabling, H handles every
\* event the engine observes, and handles it before the engine does; and
\* whatever the hook, a line's hit count is the number of its executions in
\* the activations the engine saw from call to return.
C8_ForwardThenTime ==
    /\ \A i \in By("E") :
        wrap_trace /\ log[i].ev.usr = "H" =>
            /\ i = 3
            /\ log[2] = [who |-> "H", ev |-> log[i].ev]
    /\ allclean /\ Settled =>
        \A fn \in DOMAIN timings : Hits(timings)[fn] = ExpectedOf(fn)

\* A line event of a profiled call went to H and then to the engine.
C8_Witness ==
    /\ wrap_trace
    /\ Len(log) = 3
    /\ log[2].who = "H"
    /\ log[3].who = "E"
    /\ log[3].ev.type = "line"
    /\ log[3].ev.usr = "H"

\* C9: with wrap_trace false, H handles no event reported while the profiler
\* is enabled; and H handles every event reported while the profiler is not
\* enabled and H is the hook the program installed.
C9_ExclusiveControl ==
    ~wrap_trace =>
        /\ \A i \in By("H") : ~log[i].ev.en
        /\ \A i \in By("I") :
            ~log[i].ev.en /\ log[i].ev.usr = "H" =>
                log = <<log[i], [who |-> "H", ev |-> log[i].ev]>>

\* After a profiled call that was timed, an event of an unprofiled call goes
\* to H.
C9_Witness ==
    /\ ~wrap_trace
    /\ \E fn \in DOMAIN timings : timings[fn] # << >>
    /\ enable_count = 0
    /\ Len(log) = 2
    /\ log[2].who = "H"
    /\ ~log[2].ev.en

\* C10: wrapping a wrapper returns that wrapper and registers nothing: no
\* function, no Code Unit and no wrapper object is added; every wrapper wraps
\* a raw function, and the only Code Units are those of raw functions.
C10_WrapIdempotent ==
    /\ last.op = "wrap" /\ last.arg.kind = "wrapper" =>
        /\ last.res = last.arg
        /\ functions = last.pre.functions
        /\ timings = last.pre.timings
        /\ wrappers = last.pre.wrappers
    /\ \A i \in 1..Len(wrappers) : wrappers[i].target.kind = "func"
    /\ DOMAIN timings \subseteq Funcs

\* The wrapper of f was wrapped again.
C10_Witness ==
    /\ last.op = "wrap"
    /\ last.arg.kind = "wrapper"
    /\ last.res = last.arg
    /\ Len(functions) = 1

\* The activation on top of the stack is the program's first call, made
\* through a wrapper while the profiler was not enabled, and no release has
\* cut its timing short.
FirstProfiledCall(fr) ==
    /\ fr.kind = "act"
    /\ fr.via
    /\ fr.pre = 0
    /\ ncalls = 1
    /\ allclean

\* The lines of the first k steps of the activation's path.
Executed(fr, k) == {Path(fr.fn, fr.n)[i] : i \in 1..k}

\* C14: after one profiled call of f that ran both of its lines once, f's
\* Code Unit has exactly one Line Entry per line, each with hit count 1 and
\* a duration above 0; in general each hit count is the number of executions
\* of the line in the activations profiled from call to return.
C14_OneHitPerLine ==
    /\ last.op = "wrapper_exit" /\ FirstProfiledCall(last.arg)
       /\ last.arg.pc = Len(Path(last.arg.fn, last.arg.n)) =>
        /\ DOMAIN timings = {last.arg.fn}
        /\ DOMAIN timings[last.arg.fn] = Executed(last.arg, last.arg.pc)
        /\ \A l \in DOMAIN timings[last.arg.fn] :
            /\ timings[last.arg.fn][l].hits = 1
            /\ timings[last.arg.fn][l].time > 0
    /\ allclean /\ Settled =>
        /\ DOMAIN expected \subseteq DOMAIN timings
        /\ \A fn \in DOMAIN timings :
            /\ DOMAIN timings[fn] = DOMAIN ExpectedOf(fn)
            /\ \A l \in DOMAIN timings[fn] :
                timings[fn][l].hits = expected[fn][l]

\* f was called once through its wrapper and has returned after `return y'.
C14_Witness ==
    /\ last.op = "wrapper_exit"
    /\ FirstProfiledCall(last.arg)
    /\ last.arg.pc = 2
    /\ enable_count = 0
    /\ DOMAIN timings["f"] = {18, 19}
    /\ timings["f"][18].hits = 1
    /\ timings["f"][19].hits = 1

\* C15: while an activation runs, the lines it has left behind are credited
\* and the line it is on is not: the Call Frame Timer holds that line, and
\* its credit comes with the next line event or, for the last line, with the
\* return or exception event.
C15_CreditOrder ==
    /\ stack # <<>> /\ FirstProfiledCall(Top) /\ Top.st = "run" =>
        /\ \A fn \in DOMAIN timings :
            DOMAIN timings[fn] =
                IF fn = Top.fn /\ Top.pc > 0 THEN Executed(Top, Top.pc - 1)
                ELSE {}
        /\ \E x \in last_time :
            /\ x.act = Len(stack)
            /\ x.line = IF Top.pc = 0 THEN 0
                        ELSE Path(Top.fn, Top.n)[Top.pc]
    /\ stack # <<>> /\ FirstProfiledCall(Top) /\ Top.st = "finally" =>
        /\ DOMAIN timings[Top.fn] = Executed(Top, Top.pc)
        /\ last_time = {}

\* f is on `return y': `y = x + 10' is credited, `return y' is being timed.
C15_Witness ==
    /\ stack # <<>>
    /\ FirstProfiledCall(Top)
    /\ Top.st = "run"
    /\ Top.pc = 2
    /\ DOMAIN timings["f"] = {18}
    /\ \E x \in last_time : x.line = 19

\* C16: no operation lowers a hit count or a duration or removes a Line
\* Entry or a Code Unit; and a Code Unit has Line Entries only once an event
\* of a call has been reported, so a function just registered has none.
C16_Monotone ==
    /\ \A fn \in DOMAIN last.pre.timings :
        /\ fn \in DOMAIN timings
        /\ \A l \in DOMAIN last.pre.timings[fn] :
            /\ l \in DOMAIN timings[fn]
            /\ timings[fn][l].hits >= last.pre.timings[fn][l].hits
            /\ timings[fn][l].time >= last.pre.timings[fn][l].time
    /\ \A fn \in DOMAIN timings : timings[fn] # << >> => ncalls > 0
    /\ last.op = "wrap" /\ last.arg.fn \notin DOMAIN last.pre.timings =>
         timings[last.arg.fn] = << >>

\* A Line Entry that had hits has got one more, and more time.
C16_Witness ==
    \E fn \in DOMAIN last.pre.timings :
        \E l \in DOMAIN last.pre.timings[fn] :
            /\ last.pre.timings[fn][l].hits >= 1
            /\ timings[fn][l].hits = last.pre.timings[fn][l].hits + 1
            /\ timings[fn][l].time > last.pre.timings[fn][l].time

\* C17: every activation in flight has a Call Frame Timer of its own, which
\* holds the line that activation is on and the time of that activation's
\* latest event, whatever inner activations have done since; so after
\* recursive calls each line's hit count is the number of its executions in
\* all activations.
C17_TimerPerActivation ==
    /\ Cardinality(last_time) = Len(job.open)
    /\ \A i \in 1..Len(job.open) :
        \E x \in last_time :
            /\ x.act = job.open[i].act
            /\ x.line = job.open[i].line
            /\ x.t = job.open[i].t
    /\ job.pend = <<>> =>
        \A fn \in DOMAIN timings :
            Hits(timings)[fn] = ExpectedOf(fn)

\* An inner activation has run and returned, and the outer one is still on
\* its line 2 with the time it got there.
C17_Witness ==
    /\ Len(job.open) = 1
    /\ job.open[1].line = 2
    /\ job.open[1].t < now - 2
    /\ "rec" \in DOMAIN timings
    /\ 1 \in DOMAIN timings["rec"]
    /\ timings["rec"][1].hits >= 2

\* Arguments a decorated callable is compared on.
Probes == {3, 4}

C13_SuspensionNotCredited ==
    "g" \in DOMAIN timings =>
        /\ DOMAIN timings["g"] = DOMAIN ExpectedOf("g")
        /\ \A l \in DOMAIN timings["g"] :
            /\ timings["g"][l].hits = expected["g"][l]
            /\ timings["g"][l].time = expected["g"][l]
        /\ last.op = "resume" /\ sh.gen.out.kind = "stop" =>
            timings["g"] = last.pre.timings["g"]

\* The profiler stayed enabled for the caller, who spent time between the
\* resumptions; both lines of g were run once.
C13_Witness ==
    /\ sh.gen.ticks >= 1
    /\ sh.gen.pc = 2
    /\ last.op = "resume"
    /\ last.pre.enable_count = 1
    /\ last.pre.last_time = {}
    /\ timings["g"] = (23 :> [hits |-> 1, time |-> 1])
                      @@ (24 :> [hits |-> 1, time |-> 1])

\* The decorated bound methods and partials of foo, and the calls made
\* through all of them.
FooShapes == {i \in 1..Len(sh.made) : sh.made[i].kind \in {"bound", "partial"}}

RECURSIVE SumInv(_)
SumInv(k) ==
    IF k = 0 THEN 0
    ELSE SumInv(k - 1) + (IF k \in FooShapes THEN sh.inv[k] ELSE 0)

HitsOf(fn, line) ==
    IF fn \in DOMAIN timings /\ line \in DOMAIN timings[fn]
    THEN timings[fn][line].hits
    ELSE 0

\* C18: the wrappers made from bound methods and partials of foo share foo's
\* Code Unit: it is registered as soon as one of them is decorated, there is
\* no Code Unit per wrapper, and the hit count of foo's line is the number of
\* calls made through all of them together.
C18_SharedCodeUnit ==
    /\ FooShapes # {} => "foo" \in DOMAIN timings
    /\ "wrapper" \notin DOMAIN timings
    /\ HitsOf("foo", 559) = SumInv(Len(sh.made))
    /\ "foo" \in DOMAIN timings => DOMAIN timings["foo"] \subseteq {559}

\* Two different decorated shapes of foo were called twice and once.
C18_Witness ==
    /\ Len(sh.made) = 2
    /\ FooShapes = {1, 2}
    /\ sh.made[1].bind # sh.made[2].bind
    /\ sh.inv = <<2, 1>>
    /\ HitsOf("foo", 559) = 3

\* C19: `functions' lists the underlying function of every registration in
\* order, duplicates kept, while the Code Units are the distinct functions
\* among them; after LineProfiler(f, g) they are [f, g] and each Code Unit
\* is empty.
C19_FunctionsAndCodeUnits ==
    /\ functions = [i \in 1..Len(sh.reg) |-> Raw(sh.reg[i])]
    /\ DOMAIN timings = {sh.reg[i] : i \in 1..Len(sh.reg)}
    /\ last.op = "construct" =>
        \A fn \in DOMAIN timings : timings[fn] = << >>

\* After LineProfiler(f, g), two shapes of foo were decorated.
C19_Witness ==
    /\ functions = <<Raw("f"), Raw("g"), Raw("foo"), Raw("foo")>>
    /\ DOMAIN timings = {"f", "g", "foo"}

\* C20: decorating a property whose getter is a wrapper already keeps that
\* wrapper and registers the setter only; the getter's hit count is the
\* number of reads and the setter's the number of writes.
C20_GetterNotRewrapped ==
    /\ last.op = "wrap" /\ last.arg.kind = "property" /\ last.arg.id > 0 =>
        /\ last.res.id = last.arg.id
        /\ functions = last.pre.functions
                       \o (IF last.arg.has THEN <<Raw("setter")>> ELSE <<>>)
        /\ Len(wrappers) = Len(last.pre.wrappers)
                           + (IF last.arg.has THEN 1 ELSE 0)
    /\ \A i \in 1..Len(functions) : functions[i].kind = "func"
    /\ HitsOf("getter", 605) = sh.gets
    /\ HitsOf("setter", 613) = sh.sets

\* test_property_decorator: the property, then its setter, were decorated;
\* two reads and one write were made.
C20_Witness ==
    /\ functions = <<Raw("getter"), Raw("setter")>>
    /\ sh.gets = 2
    /\ sh.sets = 1
    /\ sh.x = 5
    /\ HitsOf("getter", 605) = 2
    /\ HitsOf("setter", 613) = 1

\* C22: the profiler is the runtime's registered profiling tool, under the
\* name "line_profiler", exactly while its enable count is positive: nothing
\* is registered before a profiled call, "line_profiler" is registered when
\* the wrapper has entered the call, and nothing is registered once the count
\* is back at 0.
C22_ToolWhileEnabled ==
    /\ tool = IF enable_count > 0 THEN "line_profiler" ELSE "None"
    /\ last.pre.tool = IF last.pre.enable_count > 0 THEN "line_profiler"
                       ELSE "None"
    /\ last.op = "call" /\ last.arg.kind = "wrapper" =>
        tool = "line_profiler"

\* test_sys_monitoring: the wrapper of the one call made has just released;
\* the tool was registered until then and is not any more.
C22_Witness ==
    /\ last.op = "wrapper_exit"
    /\ ncalls = 1
    /\ last.pre.tool = "line_profiler"
    /\ last.did = <<"disable">>
    /\ tool = "None"
    /\ enable_count = 0

C23_StopCancelsFirings ==
    \A i \in 1..Len(kp.timers) : ~kp.timers[i].afterstop

\* C24: when main reaches its final export, and from then on, every
\* RepeatedTimer it started has been stopped and has no Timer scheduled, and
\* no periodic dump is delivered after the final export.
C24_DumpersStoppedBeforeExport ==
    kp.pc \in {"590", "done", "raised"} =>
        /\ \A r \in 1..Len(kp.rts) :
            /\ kp.rts[r].stopped
            /\ \A i \in TimersOf(kp, r) : kp.timers[i].st # "waiting"
        /\ \A d \in 1..Len(kp.sink) :
            kp.sink[d].by > 0 => kp.sink[d].after = 0

\* C25: the k-th Timer of a RepeatedTimer is scheduled for the construction
\* time plus k intervals, however late the earlier firings ran and however
\* long the earlier dumps take.
C25_FiringsOnGrid ==
    \A i \in 1..Len(kp.timers) :
        LET r == kp.timers[i].rt
        IN  kp.timers[i].at = kp.rts[r].t0 + kp.timers[i].n * kp.rts[r].interval

C25_Witness ==
    \E i, j \in 1..Len(kp.timers) :
        /\ kp.timers[i].rt = kp.timers[j].rt
        /\ kp.timers[j].n = 1 /\ kp.timers[i].n = 2
        /\ kp.timers[j].pc = "dump"
        /\ kp.clock >= kp.timers[i].at
        /\ kp.timers[i].at = kp.rts[kp.timers[i].rt].t0
                                 + 2 * kp.rts[kp.timers[i].rt].interval

\* C26: a periodic dump that fails stops neither the later dumps nor the
\* profiling: as long as stop() has not been called, whenever _run has
\* invoked the dump function the next Timer of the RepeatedTimer was already
\* scheduled, whether that dump then failed or not.
C26_FailedDumpKeepsSchedule ==
    kp.pc = "beside" =>
        \A i \in 1..Len(kp.timers) :
            (kp.timers[i].pc = "dump" \/ kp.timers[i].st = "done")
                => kp.timers[i].sched

\* C27: beside an execution that lasts 3.5 intervals, a dumper of interval 1
\* whose timers fire on time and whose dumps succeed has delivered at least 3
\* snapshots when the execution ends and stop() is about to be called; and
\* from one delivery to the next no Line Entry's hit count goes down.
C27_ThreeDeliveries ==
    /\ ( /\ kp.pc = "beside"
         /\ 2 * (kp.clock - kp.rts[1].t0) >= 7 * Seconds(1)
         /\ \A i \in 1..Len(kp.timers) : ~kp.timers[i].failed )
       => Len(kp.sink) >= 3
    /\ \A d \in 1..(Len(kp.sink) - 1) :
           \A fn \in DOMAIN kp.sink[d].data :
               \A l \in DOMAIN kp.sink[d].data[fn] :
                   /\ fn \in DOMAIN kp.sink[d + 1].data
                   /\ l \in DOMAIN kp.sink[d + 1].data[fn]
                   /\ kp.sink[d + 1].data[fn][l].hits
                         >= kp.sink[d].data[fn][l].hits

C27_Witness ==
    /\ kp.pc = "beside"
    /\ 2 * (kp.clock - kp.rts[1].t0) = 7 * Seconds(1)
    /\ Len(kp.sink) = 3
    /\ \E fn \in DOMAIN kp.sink[2].data :
           \E l \in DOMAIN kp.sink[2].data[fn] :
               /\ kp.sink[2].data[fn][l].hits = 1
               /\ kp.sink[3].data[fn][l].hits = 2

C30_FinalExportOnce ==
    /\ kp.pc # "off" => kp.finals <= 1
    /\ kp.pc \in {"done", "raised"} =>
           /\ kp.finals = 1
           /\ Cardinality({d \in 1..Len(kp.sink) : kp.sink[d].by = 0}) = 1
           /\ kp.pc = "done" <=> (kp.outcome = "normal" \/ Swallowed(kp.outcome))
           /\ kp.pc = "raised" <=> kp.outcome = "Exception"

C30_Witness ==
    /\ kp.pc = "raised"
    /\ kp.outcome = "Exception"
    /\ kp.finals = 1
    /\ \E d \in 1..Len(kp.sink) :
           kp.sink[d].by = 0 /\ kp.sink[d].data = timings /\ timings # << >>

\* C31: every RepeatedTimer main starts has an interval of at least one
\* second, whatever integer --output-interval resolves to; main starts the
\* dumper when that value is not 0 and starts none when it is 0.
C31_IntervalAtLeastOne ==
    /\ \A r \in 1..Len(kp.rts) :
           /\ kp.rts[r].interval >= Seconds(1)
           /\ kp.rts[r].interval = Seconds(IF kp.oi > 1 THEN kp.oi ELSE 1)
    /\ kp.oi = 0 => kp.rts = << >>
    /\ (kp.oi # 0 /\ kp.pc \notin {"550", "554"}) => kp.rts # << >>

C31_Witness ==
    /\ kp.oi < 0
    /\ kp.pc = "590"
    /\ \E d \in 1..Len(kp.sink) :
           kp.sink[d].by > 0 /\ kp.rts[kp.sink[d].by].interval = Seconds(1)

\* C32: pre_parse_single_arg_directive consumes only the first flag that
\* lies before the first separator: the value is the element right after it,
\* pre is all that comes before it, post all that comes after the value,
\* later flags and the separator included; with no flag before the first
\* separator the value is None, pre ends with the separator and post is the
\* rest.
C32_FirstFlagBeforeSeparator ==
    kp.res.exc = "" =>
        LET a == kp.given
            seps == {i \in 1..Len(a) : a[i] = "--"}
            h == IF seps = {} THEN Len(a)
                 ELSE (CHOOSE i \in seps : \A j \in seps : i <= j) - 1
            flags == {i \in 1..h : a[i] = "-m"}
        IN  IF flags = {}
            THEN /\ kp.res.arg = "None"
                 /\ kp.res.pre = SubSeq(a, 1, IF seps = {} THEN h ELSE h + 1)
                 /\ kp.res.post = SubSeq(a, h + 2, Len(a))
            ELSE LET f == CHOOSE i \in flags : \A j \in flags : i <= j
                 IN  /\ kp.res.arg = a[f + 1]
                     /\ kp.res.pre = SubSeq(a, 1, f - 1)
                     /\ kp.res.post = SubSeq(a, f + 2, Len(a))

C32_Witness ==
    /\ kp.pc = "352"
    /\ kp.res.arg = "x"
    /\ kp.res.pre = << >>
    /\ kp.res.post = <<"--", "-m">>

\* C33: the function raises ValueError exactly when the first flag before
\* the first separator is the last element of that part, and then the
\* caller's list is as it was.
C33_ValueErrorIffNoValue ==
    kp.pc # "348" =>
        LET a == kp.given
            seps == {i \in 1..Len(a) : a[i] = "--"}
            h == IF seps = {} THEN Len(a)
                 ELSE (CHOOSE i \in seps : \A j \in seps : i <= j) - 1
            flags == {i \in 1..h : a[i] = "-m"}
            novalue == flags # {} /\ h \in flags /\ Cardinality(flags) = 1
        IN  /\ kp.res.exc = "ValueError" <=> novalue
            /\ kp.res.exc = "ValueError" => kp.args = kp.given

C33_Witness ==
    /\ kp.pc = "raised"
    /\ kp.res.exc = "ValueError"
    /\ kp.given = <<"x", "-m", "--", "y">>
    /\ kp.args = kp.given

\* C39: the function loses and reorders nothing: what it returns, put
\* together again with the flag and the value it consumed, is the list it
\* was given; and its assertion never fails.
C39_NothingLost ==
    /\ kp.res.exc # "AssertionError"
    /\ kp.res.exc = "" =>
           IF kp.res.arg = "None"
           THEN kp.res.pre \o kp.res.post = kp.given
           ELSE kp.res.pre \o <<"-m", kp.res.arg>> \o kp.res.post = kp.given

C39_Witness ==
    /\ kp.pc = "352"
    /\ kp.res.arg = "None"
    /\ kp.res.pre = <<"x", "--">>
    /\ kp.res.post = <<"-m", "y">>

C35_GlobalProfilerRestored ==
    /\ kp.pc \in {"557", "590", "609"} => kp.g.profile = "prof"
    /\ (kp.pc \in {"returned", "raised"} /\ kp.installed)
           => kp.g.profile = "None"
    /\ ~kp.g.output

\* C36: on every exit from main, by return or by exception, sys.argv and
\* sys.path hold what they held before the call.
C36_ArgvAndPathRestored ==
    kp.pc \in {"returned", "raised"} =>
        /\ kp.heap[kp.argv] = kp.argv0
        /\ kp.heap[PathList] = kp.path0

C38_FailedAcquireNotCounted ==
    /\ last.op = "enable_by_count_raised" =>
           /\ enable_count = last.pre.enable_count
           /\ enable_count = 0
           /\ trace = last.pre.trace /\ tool = last.pre.tool
    /\ (last.op = "disable_by_count" /\ last.did # << >>) =>
           /\ last.did = <<"disable">>
           /\ last.pre.tool = "line_profiler"
           /\ last.pre.trace = "profiler"
    /\ tool = "other" => enable_count = 0

C38_Witness ==
    /\ last.op = "enable_by_count_raised"
    /\ last.did = <<"enable">>
    /\ tool = "other"
    /\ enable_count = 0

====
